---------------------------- MODULE Spec2Model ----------------------------
(***************************************************************************)
(* Verification model of the VICE-snapshot converter: the RAM finder       *)
(* (find_ram.rs), the memory patcher (patch_mem.rs), the conversion entry  *)
(* point (convert_snapshot.rs) and a 6502 interpreter that executes the    *)
(* routines the patcher emits on the patched RAM image.                    *)
(***************************************************************************)
EXTENDS Integers, Sequences, FiniteSets, TLC

VARIABLES
    image,      \* the snapshot's RAM image (snap.mem.ram), never modified
    snapshot,   \* the other fields of the parsed C64Snapshot
    finder,     \* FindRam.blocks: sequence of RamBlock records
    scanned,    \* TRUE once FindRam::new has run on the image
    ncalls,     \* number of FindRam::allocate calls made directly
    lastReq,    \* requested_count of the last direct allocate call
    lastRes,    \* its return value: NoneVal or <<address, value>>
    prevBlocks, \* FindRam.blocks before the last direct allocate call
    patch,      \* what PatchMem::new returned and left behind (NoneVal before)
    result,     \* Result of ConvertSnapshot::convert up to the patch step
    phase,      \* "input", "patched", "failed", "run", "resumed", "trap"
    mem,        \* RAM of the running machine: bytes written, laid over image
    cpu,        \* 6502 registers of the running machine
    ddr,        \* processor port direction register ($00)
    port,       \* processor port data register ($01)
    io,         \* VIC-II / CIA registers the restore code writes
    buslog,     \* accesses made to $01 and to the I/O register addresses
    vsf,        \* the bytes of a snapshot file, as a description (NoneVal: none)
    parser,     \* progress and result of ParseVSF::parse_import on vsf
    generator,  \* a MakeROMHAsm value, as a description (NoneVal: none)
    romh,       \* what MakeROMHAsm::generate_romh returned (NoneVal before)
    prg,        \* arguments of FileSystemManager::allocate_files (NoneVal: none)
    fsm,        \* locals and result of allocate_files on prg
    cart,       \* the cartridge directory and the requested name (NoneVal: none)
    handler,    \* the on-cartridge load handler: label, entry, Y, carry
    extra_blocks, \* main.rs: extra_ram_blocks_rc, the override list (NoneVal: no window)
    ui,         \* the window: tab, position in the Convert handler, attempts made
    builder,    \* what CRTBuilder::new returned and the calls since made of it
    crt,        \* what CRTBuilder::generate_crt_data last returned (NoneVal before)
    cartridge   \* a cartridge conversion: its parts, its position in the bank
                \* filling loop and its outcome

runVars == <<mem, cpu, ddr, port, io, buslog>>
convVars == <<image, snapshot, finder, scanned, ncalls, lastReq, lastRes, prevBlocks,
              patch, result, phase>>
parseVars == <<vsf, parser>>
romhVars == <<generator, romh>>
fsVars == <<prg, fsm>>
loadVars == <<cart, handler>>
uiVars == <<extra_blocks, ui>>
crtVars == <<builder, crt, cartridge>>
extVars == <<parseVars, romhVars, fsVars, loadVars, uiVars, crtVars>>
vars == <<convVars, runVars, extVars>>

---------------------------------------------------------------------------
(* Bytes and words *)

NoneVal == <<>>

---------------------------------------------------------------------------
(* RAM images.  A 64 KiB image is described by a background and a list of  *)
(* runs laid over it; ImageByte gives the byte at an address.              *)

RampByte(a) == (a + (a \div 256)) % 256

RECURSIVE RunByte(_, _, _)
RunByte(runs, i, a) ==
    IF i > Len(runs) THEN -1
    ELSE IF a >= runs[i].addr /\ a < runs[i].addr + runs[i].len THEN runs[i].value
    ELSE RunByte(runs, i + 1, a)

ImageByte(img, a) ==
    LET r == RunByte(img.runs, 1, a) IN
    IF r >= 0 THEN r
    ELSE IF img.bg = "zero" THEN 0 ELSE RampByte(a)

---------------------------------------------------------------------------
(* find_ram.rs *)

START_ADDR == 512
END_ADDR == 65519
MIN_SEQUENCE_LEN == 32
RAM_SIZE == 65536

\* inner while loop of FindRam::new: count the run starting at addr.
\* The loop is unrolled by halving so that its depth stays logarithmic.
RECURSIVE CountRun(_, _, _, _)
CountRun(img, addr, count, fuel) ==
    IF ~(addr + count <= END_ADDR /\ ImageByte(img, addr + count) = ImageByte(img, addr))
    THEN count
    ELSE IF fuel <= 1 THEN count + 1
    ELSE CountRun(img, addr, CountRun(img, addr, count, fuel \div 2), fuel - fuel \div 2)

\* ScanStep with "count > MIN_SEQUENCE_LEN" for "count >= MIN_SEQUENCE_LEN"
ScanStep_gt(img, s) ==
    LET count == CountRun(img, s.addr, 1, RAM_SIZE) IN
    IF count > MIN_SEQUENCE_LEN
    THEN [addr   |-> s.addr + count,
          blocks |-> Append(s.blocks,
                            [address |-> s.addr,
                             value   |-> ImageByte(img, s.addr),
                             count   |-> count])]
    ELSE [addr |-> s.addr + 1, blocks |-> s.blocks]

\* one iteration of the outer while loop of FindRam::new
ScanStep(img, s) ==
    LET count == CountRun(img, s.addr, 1, RAM_SIZE) IN
    IF count >= MIN_SEQUENCE_LEN
    THEN [addr   |-> s.addr + count,
          blocks |-> Append(s.blocks,
                            [address |-> s.addr,
                             value   |-> ImageByte(img, s.addr),
                             count   |-> count])]
    ELSE [addr |-> s.addr + 1, blocks |-> s.blocks]

RECURSIVE ScanLoop(_, _, _)
ScanLoop(img, s, fuel) ==
    IF ~(s.addr <= END_ADDR) THEN s
    ELSE IF fuel <= 1 THEN ScanStep(img, s)
    ELSE ScanLoop(img, ScanLoop(img, s, fuel \div 2), fuel - fuel \div 2)

\* FindRam_new that scans from address 0
FindRam_new_whole(img) ==
    ScanLoop(img, [addr |-> 0, blocks |-> <<>>], RAM_SIZE).blocks

FindRam_new(img) ==
    ScanLoop(img, [addr |-> START_ADDR, blocks |-> <<>>], RAM_SIZE).blocks


\* BestMatch as first fit: the first block that is large enough
BestMatch_first(blocks, requested_count) ==
    LET fits == {i \in 1..Len(blocks) : blocks[i].count >= requested_count} IN
    IF fits = {} THEN 0
    ELSE CHOOSE i \in fits : \A j \in fits : i <= j

\* FindRam::allocate: index (1-based) of the best match, 0 when there is none.
\* min_by_key returns the first of several equally small elements.
BestMatch(blocks, requested_count) ==
    LET fits == {i \in 1..Len(blocks) : blocks[i].count >= requested_count} IN
    IF fits = {} THEN 0
    ELSE CHOOSE i \in fits :
            \A j \in fits : \/ blocks[i].count < blocks[j].count
                            \/ (blocks[i].count = blocks[j].count /\ i <= j)

RemoveAt(seq, index) ==
    SubSeq(seq, 1, index - 1) \o SubSeq(seq, index + 1, Len(seq))

\* allocate without the early return for requested_count = 0
allocate_nozero(blocks, requested_count) ==
    LET index == BestMatch(blocks, requested_count) IN
    IF index = 0 THEN [res |-> NoneVal, blocks |-> blocks]
    ELSE
      LET block == blocks[index]
          remaining_count == block.count - requested_count
      IN  [res    |-> <<block.address, block.value>>,
           blocks |-> IF remaining_count = 0
                      THEN RemoveAt(blocks, index)
                      ELSE [blocks EXCEPT ![index] =
                              [address |-> (block.address + requested_count) % 65536,
                               value   |-> block.value,
                               count   |-> remaining_count]]]

\* FindRam::allocate: [res |-> NoneVal or <<address, value>>, blocks |-> list after]
allocate(blocks, requested_count) ==
    IF requested_count = 0 THEN [res |-> NoneVal, blocks |-> blocks]
    ELSE
      LET index == BestMatch(blocks, requested_count) IN
      IF index = 0 THEN [res |-> NoneVal, blocks |-> blocks]
      ELSE
        LET block == blocks[index]
            remaining_count == block.count - requested_count
        IN  [res    |-> <<block.address, block.value>>,
             blocks |-> IF remaining_count = 0
                        THEN RemoveAt(blocks, index)
                        ELSE [blocks EXCEPT ![index] =
                                [address |-> (block.address + requested_count) % 65536,
                                 value   |-> block.value,
                                 count   |-> remaining_count]]]

---------------------------------------------------------------------------
(* patch_mem.rs: code generators.  Code is a sequence of bytes; Rust's     *)
(* 0-based blocks[i] is blocks[i + 1] here.                                *)

AsU8(n) == n % 256

\* CopyBackLoop starting its index at 30: the last byte of each block is not copied
CopyBackLoop_short(code, blocks, i) ==
    LET dst == 256 + i * 32
        c1 == code \o <<162, 30>>
        loop_start == Len(c1)
        c2 == c1 \o <<189, AsU8(blocks[i + 1].address), AsU8(blocks[i + 1].address \div 256)>>
                 \o <<157, dst % 256, AsU8(dst \div 256)>>
                 \o <<202>>
        offset == AsU8(loop_start - (Len(c2) + 2))
    IN  c2 \o <<16, offset>>

\* one iteration of "Copy blocks 1-8 back to $0100-$01FF" (i in 0..7)
CopyBackLoop(code, blocks, i) ==
    LET dst == 256 + i * 32
        c1 == code \o <<162, 31>>
        loop_start == Len(c1)
        c2 == c1 \o <<189, AsU8(blocks[i + 1].address), AsU8(blocks[i + 1].address \div 256)>>
                 \o <<157, dst % 256, AsU8(dst \div 256)>>
                 \o <<202>>
        offset == AsU8(loop_start - (Len(c2) + 2))
    IN  c2 \o <<16, offset>>

\* RestoreVectorsLoop reading from the start of block 1 instead of offset 32
RestoreVectorsLoop_base(code, blocks) ==
    LET c1 == code \o <<162, 15>>
        loop2 == Len(c1)
        addr == blocks[1].address
        c2 == c1 \o <<189, AsU8(addr), AsU8(addr \div 256)>> \o <<157, 240, 255>> \o <<202>>
        offset == AsU8(loop2 - (Len(c2) + 2))
    IN  c2 \o <<16, offset>>

\* "Restore $FFF0-$FFFF"
RestoreVectorsLoop(code, blocks) ==
    LET c1 == code \o <<162, 15>>
        loop2 == Len(c1)
        addr == blocks[1].address + 32
        c2 == c1 \o <<189, AsU8(addr), AsU8(addr \div 256)>> \o <<157, 240, 255>> \o <<202>>
        offset == AsU8(loop2 - (Len(c2) + 2))
    IN  c2 \o <<16, offset>>

\* CleanLoop comparing with size - 1: the last byte of the block is not wiped
CleanLoop_short(code, blocks, i) ==
    LET addr == blocks[i + 1].address
        size == blocks[i + 1].size
        value == blocks[i + 1].original_value
        c1 == code \o <<169, value>> \o <<162, 0>>
        fill == Len(c1)
        c2 == c1 \o <<157, AsU8(addr), AsU8(addr \div 256)>> \o <<232>>
                 \o <<224, AsU8(size - 1)>>
        offset == AsU8(fill - (Len(c2) + 2))
    IN  c2 \o <<208, offset>>

\* one iteration of "Clean blocks 1-8" (i in 0..7)
CleanLoop(code, blocks, i) ==
    LET addr == blocks[i + 1].address
        size == blocks[i + 1].size
        value == blocks[i + 1].original_value
        c1 == code \o <<169, value>> \o <<162, 0>>
        fill == Len(c1)
        c2 == c1 \o <<157, AsU8(addr), AsU8(addr \div 256)>> \o <<232>> \o <<224, AsU8(size)>>
        offset == AsU8(fill - (Len(c2) + 2))
    IN  c2 \o <<208, offset>>

RECURSIVE CopyBackAll(_, _, _)
CopyBackAll(code, blocks, i) ==
    IF i >= 8 THEN code ELSE CopyBackAll(CopyBackLoop(code, blocks, i), blocks, i + 1)

\* [ok |-> TRUE, code |-> bytes] or [ok |-> FALSE, err |-> PatchError]
RECURSIVE CleanAll(_, _, _)
CleanAll(code, blocks, i) ==
    IF i >= 8 THEN [ok |-> TRUE, code |-> code]
    ELSE IF blocks[i + 1].size > 256
         THEN [ok |-> FALSE,
               err |-> [kind |-> "CodeTooLarge",
                        msg  |-> "Block " \o ToString(i + 1) \o " size "
                                 \o ToString(blocks[i + 1].size)
                                 \o " exceeds 256 bytes"]]
         ELSE CleanAll(CleanLoop(code, blocks, i), blocks, i + 1)

generate_block9_core(blocks) ==
    CleanAll(RestoreVectorsLoop(CopyBackAll(<<>>, blocks, 0), blocks), blocks, 0)

RECURSIVE RestoreF8FF(_, _, _)
RestoreF8FF(code, f8_ff, i) ==
    IF i >= 8 THEN code
    ELSE RestoreF8FF(code \o <<169, f8_ff[i + 1]>> \o <<133, AsU8(248 + i)>>, f8_ff, i + 1)

\* Block9Tail without the placeholder JMP to block 10
Block9Tail_nojmp(core, f8_ff) ==
    IF ~core.ok THEN core
    ELSE [ok |-> TRUE, code |-> RestoreF8FF(core.code, f8_ff, 0)]

\* generate_block9_final after "generate_block9_core(blocks)?"
Block9Tail(core, f8_ff) ==
    IF ~core.ok THEN core
    ELSE [ok |-> TRUE, code |-> RestoreF8FF(core.code, f8_ff, 0) \o <<76, 0, 0>>]

generate_block9_final(blocks, f8_ff) == Block9Tail(generate_block9_core(blocks), f8_ff)

saturating_sub(a, b) == IF a >= b THEN a - b ELSE 0

\* "Wipe block 9" of generate_block10, appended to code
WipeBlock9(code, block9_addr, block9_size, block9_fill) ==
    LET w1 == code \o <<169, block9_fill>> \o <<162, 0>>
        wipe_loop == Len(w1)
        w2 == w1 \o <<157, block9_addr % 256, AsU8(block9_addr \div 256)>>
                 \o <<232>> \o <<224, AsU8(block9_size)>> \o <<208>>
        offset == AsU8(wipe_loop - (Len(w2) + 1))
    IN  w2 \o <<offset>>

generate_block10(snap, block9_addr, block9_size, block9_fill, block10_size) ==
    (IF block9_size > 0 /\ block9_size <= 256
     THEN WipeBlock9(<<162, snap.cpu.sp>> \o <<154>>, block9_addr, block9_size, block9_fill)
     ELSE <<162, snap.cpu.sp>> \o <<154>>)
    \o <<169, snap.mem.cpu_port_dir>> \o <<133, 0>>
    \o <<169, AsU8(snap.cpu.pc \div 256)>> \o <<72>>
    \o <<169, snap.cpu.pc % 256>> \o <<72>>
    \o <<169, snap.cpu.p>> \o <<72>>
    \o <<169, 0>>
    \o <<162, snap.mem.cpu_port_data>>
    \o (IF block10_size = 256 \/ block10_size > 128
        THEN <<160, 255>>
        ELSE <<160, AsU8(saturating_sub(block10_size, 1))>>)
    \o <<76, 0, 0>>

\* ier | 0x80
OrBit7(b) == IF b < 128 THEN b + 128 ELSE b

\* "Wipe block 10" of generate_restore_code; code is empty when it is emitted,
\* so wipe_loop = code.len() = 0
WipeBlock10(block10_addr, block10_size) ==
    LET wipe_loop == 0
        w1 == <<153, block10_addr % 256, AsU8(block10_addr \div 256)>> \o <<136>>
    IN  IF block10_size = 256 \/ block10_size > 128
        THEN w1 \o <<16>> \o <<AsU8(wipe_loop - (Len(w1) + 1 + 1))>>
        ELSE w1 \o <<208>> \o <<AsU8(wipe_loop - (Len(w1) + 1 + 1))>>

\* generate_restore_code that drains the CIAs before it disables the VIC
generate_restore_code_drain(snap, block10_addr, block10_size) ==
    WipeBlock10(block10_addr, block10_size)
    \o <<134, 1>>
    \o <<173, 13, 220>> \o <<173, 13, 221>>
    \o <<169, 0>> \o <<141, 26, 208>>
    \o <<169, 255>> \o <<141, 25, 208>>
    \o <<169, 255>> \o <<141, 25, 208>>
    \o <<169, snap.vic1A>> \o <<141, 26, 208>>
    \o <<173, 13, 220>> \o <<173, 13, 221>>
    \o (IF snap.cia1.ier # 0
        THEN <<169, OrBit7(snap.cia1.ier)>> \o <<141, 13, 220>> ELSE <<>>)
    \o (IF snap.cia2.ier # 0
        THEN <<169, OrBit7(snap.cia2.ier)>> \o <<141, 13, 221>> ELSE <<>>)
    \o <<169, snap.cia1.cra>> \o <<141, 14, 220>>
    \o <<169, snap.cia1.crb>> \o <<141, 15, 220>>
    \o <<169, snap.cia2.cra>> \o <<141, 14, 221>>
    \o <<169, snap.cia2.crb>> \o <<141, 15, 221>>
    \o <<162, snap.cpu.x>> \o <<160, snap.cpu.y>> \o <<169, snap.cpu.a>>
    \o <<64>>

generate_restore_code(snap, block10_addr, block10_size) ==
    WipeBlock10(block10_addr, block10_size)
    \o <<134, 1>>
    \o <<169, 0>> \o <<141, 26, 208>>
    \o <<169, 255>> \o <<141, 25, 208>>
    \o <<173, 13, 220>> \o <<173, 13, 221>>
    \o <<169, 255>> \o <<141, 25, 208>>
    \o <<169, snap.vic1A>> \o <<141, 26, 208>>
    \o <<173, 13, 220>> \o <<173, 13, 221>>
    \o (IF snap.cia1.ier # 0
        THEN <<169, OrBit7(snap.cia1.ier)>> \o <<141, 13, 220>> ELSE <<>>)
    \o (IF snap.cia2.ier # 0
        THEN <<169, OrBit7(snap.cia2.ier)>> \o <<141, 13, 221>> ELSE <<>>)
    \o <<169, snap.cia1.cra>> \o <<141, 14, 220>>
    \o <<169, snap.cia1.crb>> \o <<141, 15, 220>>
    \o <<169, snap.cia2.cra>> \o <<141, 14, 221>>
    \o <<169, snap.cia2.crb>> \o <<141, 15, 221>>
    \o <<162, snap.cpu.x>> \o <<160, snap.cpu.y>> \o <<169, snap.cpu.a>>
    \o <<64>>

---------------------------------------------------------------------------
(* patch_mem.rs: PatchMem::new.  The working RAM image `ram` is a function *)
(* from the addresses written so far to their bytes, laid over the         *)
(* snapshot image img (convert() hands in a clone of snap.mem.ram).        *)

EmptyRam == [a \in {} |-> 0]

RamByte(img, ram, a) == IF a \in DOMAIN ram THEN ram[a] ELSE ImageByte(img, a)

\* ram[start..start + n] as a sequence
ReadSlice(img, ram, start, n) == [k \in 1..n |-> RamByte(img, ram, start + k - 1)]

\* ram[start..start + Len(bytes)].copy_from_slice(bytes)
WriteSlice(ram, start, bytes) ==
    [a \in DOMAIN ram \cup (start..(start + Len(bytes) - 1)) |->
        IF a >= start /\ a < start + Len(bytes) THEN bytes[a - start + 1] ELSE ram[a]]

sizes == <<48, 40, 32, 32, 32, 32, 32, 32>>
SAFETY_MARGIN == 6

\* "Allocate blocks 1-8": i is the 0-based loop index
RECURSIVE AllocateStackBlocks(_, _, _, _)
StackBlockAllocated(r, blocks, requests, i) ==
    IF r.res = NoneVal
    THEN [ok |-> FALSE, finder |-> r.blocks, blocks |-> blocks,
          requests |-> Append(requests, sizes[i + 1]),
          err |-> [kind |-> "AllocationFailed",
                   msg  |-> "Failed to allocate block " \o ToString(i + 1) \o " ("
                            \o ToString(sizes[i + 1]) \o " bytes)"]]
    ELSE AllocateStackBlocks(
            r.blocks,
            Append(blocks, [address |-> r.res[1], original_value |-> r.res[2],
                            size |-> sizes[i + 1]]),
            Append(requests, sizes[i + 1]), i + 1)

AllocateStackBlocks(fblocks, blocks, requests, i) ==
    IF i >= Len(sizes)
    THEN [ok |-> TRUE, finder |-> fblocks, blocks |-> blocks, requests |-> requests]
    ELSE StackBlockAllocated(allocate(fblocks, sizes[i + 1]), blocks, requests, i)

\* "Copy $0100-$01FF to allocated blocks", ranges table (0-based block index)
ranges == << <<320, 352, 2>>, <<352, 384, 3>>, <<384, 416, 4>>,
             <<416, 448, 5>>, <<448, 480, 6>>, <<480, 512, 7>> >>

RECURSIVE CopyRanges(_, _, _, _)
CopyRanges(img, ram, blocks, k) ==
    IF k > Len(ranges) THEN ram
    ELSE CopyRanges(img,
                    WriteSlice(ram, blocks[ranges[k][3] + 1].address,
                               ReadSlice(img, ram, ranges[k][1],
                                         ranges[k][2] - ranges[k][1])),
                    blocks, k + 1)

PatchFail(err, fblocks, ram, requests) ==
    [ok |-> FALSE, err |-> err, finder |-> fblocks, ram |-> ram, requests |-> requests]

\* "Copy $0100-$01FF to allocated blocks": block 1 and block 2
SaveToBlock1(img, ram, blocks) ==
    WriteSlice(ram, blocks[1].address,
               ReadSlice(img, ram, 256, 32) \o ReadSlice(img, ram, 65520, 16))

SaveToBlock2(img, ram, blocks) ==
    WriteSlice(ram, blocks[2].address,
               ReadSlice(img, ram, 288, 32) \o ReadSlice(img, ram, 248, 8))

\* "CRITICAL: Patch JMP addresses": the operand of the JMP that ends code
PatchJmp(code, target) ==
    [code EXCEPT ![Len(code) - 3 + 2] = target % 256,
                 ![Len(code) - 3 + 3] = AsU8(target \div 256)]

\* CodeStart without the safety margin
CodeStart_nomargin(sp, code_len) ==
    LET ideal_end == 256 + sp
        ideal_start == saturating_sub(ideal_end, code_len)
        end_ == 512
        start == end_ - code_len
    IN  IF ideal_start < 256
        THEN (IF start < 256 THEN -1 ELSE start)
        ELSE ideal_start

\* "Calculate placement for restore code in $01xx": -1 stands for the
\* CodeTooLarge return
CodeStart(sp, code_len) ==
    LET ideal_end == 256 + saturating_sub(sp, SAFETY_MARGIN)
        ideal_start == saturating_sub(ideal_end, code_len)
        end_ == 512
        start == end_ - code_len
    IN  IF ideal_start < 256
        THEN (IF start < 256 THEN -1 ELSE start)
        ELSE ideal_start

\* "Patch restore code into RAM" to "Write block 10"
PatchWrite(img, ram, blocks, code_start, restore_code, block9_addr, block9_code, block10_addr, block10_code) ==
    WriteSlice(
      WriteSlice(
        CopyRanges(img,
          SaveToBlock2(img,
            SaveToBlock1(img, WriteSlice(ram, code_start, restore_code), blocks),
            blocks),
          blocks, 1),
        block9_addr, block9_code),
      block10_addr, block10_code)

\* PatchMem::new from "Generate block 10 SECOND TIME" on
PatchPlace(snap, img, ram, fblocks, blocks, requests, block9_code0, b9, b10, exact_block10_size, restore_code, code_start) ==
    IF code_start < 0
    THEN PatchFail([kind |-> "CodeTooLarge",
                    msg  |-> "Restore code " \o ToString(Len(restore_code))
                             \o " bytes too large for $0100-$01FF"],
                   fblocks, ram, requests)
    ELSE [ok |-> TRUE, finder |-> fblocks, requests |-> requests,
          ram |-> PatchWrite(img, ram, blocks, code_start, restore_code,
                             b9[1], PatchJmp(block9_code0, b10[1]),
                             b10[1],
                             PatchJmp(generate_block10(snap, b9[1], Len(block9_code0),
                                                       b9[2], exact_block10_size),
                                      code_start)),
          blocks |-> blocks \o <<[address |-> b9[1], original_value |-> b9[2],
                                  size |-> Len(block9_code0)],
                                 [address |-> b10[1], original_value |-> b10[2],
                                  size |-> exact_block10_size]>>,
          block9_addr |-> b9[1],
          code_start |-> code_start, code_len |-> Len(restore_code)]

\* AfterAlloc10 that takes block 9's region for block 10 as well
AfterAlloc10_reuse(snap, img, ram, st, block9_code0, a9, a10, requests, exact_block10_size) ==
    IF a10.res = NoneVal
    THEN PatchFail([kind |-> "AllocationFailed",
                    msg  |-> "Failed to allocate block 10 (" \o ToString(exact_block10_size)
                             \o " bytes). Try with a cleaner snapshot"],
                   a10.blocks, ram, requests)
    ELSE PatchPlace(snap, img, ram, a10.blocks, st.blocks, requests, block9_code0,
                    a9.res, a9.res, exact_block10_size,
                    generate_restore_code(snap, a9.res[1], exact_block10_size),
                    CodeStart(snap.cpu.sp,
                              Len(generate_restore_code(snap, a9.res[1],
                                                        exact_block10_size))))

\* PatchMem::new after "Allocate block 10"
AfterAlloc10(snap, img, ram, st, block9_code0, a9, a10, requests, exact_block10_size) ==
    IF a10.res = NoneVal
    THEN PatchFail([kind |-> "AllocationFailed",
                    msg  |-> "Failed to allocate block 10 (" \o ToString(exact_block10_size)
                             \o " bytes). Try with a cleaner snapshot"],
                   a10.blocks, ram, requests)
    ELSE PatchPlace(snap, img, ram, a10.blocks, st.blocks, requests, block9_code0,
                    a9.res, a10.res, exact_block10_size,
                    generate_restore_code(snap, a10.res[1], exact_block10_size),
                    CodeStart(snap.cpu.sp,
                              Len(generate_restore_code(snap, a10.res[1],
                                                        exact_block10_size))))

\* PatchMem::new after "Generate block 10 FIRST TIME"
AfterSize10(snap, img, ram, st, block9_code0, a9, requests, exact_block10_size) ==
    IF exact_block10_size > 255
    THEN PatchFail([kind |-> "CodeTooLarge",
                    msg  |-> "Block 10 is " \o ToString(exact_block10_size)
                             \o " bytes (max 255)"],
                   a9.blocks, ram, requests)
    ELSE AfterAlloc10(snap, img, ram, st, block9_code0, a9,
                      allocate(a9.blocks, exact_block10_size),
                      Append(requests, exact_block10_size), exact_block10_size)

\* PatchMem::new after "Allocate block 9"
AfterAlloc9(snap, img, ram, st, block9_code0, a9, requests) ==
    IF a9.res = NoneVal
    THEN PatchFail([kind |-> "AllocationFailed",
                    msg  |-> "Failed to allocate block 9 (" \o ToString(Len(block9_code0))
                             \o " bytes). Try with a cleaner snapshot"],
                   a9.blocks, ram, requests)
    ELSE AfterSize10(snap, img, ram, st, block9_code0, a9, requests,
                     Len(generate_block10(snap, a9.res[1], Len(block9_code0),
                                          a9.res[2], 0)))

\* PatchMem::new after "Generate block 9 with placeholder JMP to block 10"
AfterGen9(snap, img, ram, st, g9) ==
    IF ~g9.ok THEN PatchFail(g9.err, st.finder, ram, st.requests)
    ELSE IF Len(g9.code) > 255
    THEN PatchFail([kind |-> "CodeTooLarge",
                    msg  |-> "Block 9 is " \o ToString(Len(g9.code))
                             \o " bytes (max 255)"],
                   st.finder, ram, st.requests)
    ELSE AfterAlloc9(snap, img, ram, st, g9.code,
                     allocate(st.finder, Len(g9.code)),
                     Append(st.requests, Len(g9.code)))

\* PatchMem::new after "Allocate blocks 1-8"
AfterStackBlocks(snap, img, ram, st) ==
    IF ~st.ok THEN PatchFail(st.err, st.finder, ram, st.requests)
    ELSE AfterGen9(snap, img, ram, st,
                   generate_block9_final(st.blocks,
                                         [k \in 1..8 |-> ImageByte(img, 248 + k - 1)]))

PatchMem_new(snap, img, ram, fblocks0) ==
    AfterStackBlocks(snap, img, ram, AllocateStackBlocks(fblocks0, <<>>, <<>>, 0))

\* PatchError_fmt that prints the variant without its message
PatchError_fmt_bare(err) ==
    IF err.kind = "AllocationFailed" THEN "Allocation failed"
    ELSE IF err.kind = "StackTooLow" THEN "Stack too low"
    ELSE "Code too large"

\* impl Display for PatchError
PatchError_fmt(err) ==
    IF err.kind = "AllocationFailed" THEN "Allocation failed: " \o err.msg
    ELSE IF err.kind = "StackTooLow" THEN "Stack too low: " \o err.msg
    ELSE "Code too large: " \o err.msg

---------------------------------------------------------------------------
(* convert_snapshot.rs: ConvertSnapshot::convert, from the parsed snapshot *)
(* to the patched RAM image.                                               *)

\* .map_err(|e| format!("Memory patching failed: {}", e))
MapPatchErr(patch_mem) ==
    IF patch_mem.ok
    THEN [ok |-> TRUE, patch_mem |-> patch_mem]
    ELSE [ok |-> FALSE, patch_mem |-> patch_mem,
          err |-> "Memory patching failed: " \o PatchError_fmt(patch_mem.err)]

convert(snap, img, ram_finder) ==
    MapPatchErr(PatchMem_new(snap, img, EmptyRam, ram_finder))

\* main.rs: is_allocation_error
Contains(str, pat) ==
    \E i \in 1..(Len(str) - Len(pat) + 1) : SubSeq(str, i, i + Len(pat) - 1) = pat

StartsWith(str, pat) ==
    Len(str) >= Len(pat) /\ SubSeq(str, 1, Len(pat)) = pat

is_allocation_error(error_msg) == Contains(error_msg, "Failed to allocate block")

---------------------------------------------------------------------------
(* The running machine: the processor port and the 6502 instructions that  *)
(* the generated routines consist of.                                      *)

IORegs == {53273, 53274, 56333, 56334, 56335, 56589, 56590, 56591}

IsIOAddr(a) == a >= 53248 /\ a <= 57343

Bit(v, k) == (v \div (2 ^ k)) % 2

\* a port line reads its data bit when it is an output and is pulled high otherwise
PortLine(d, v, k) == IF Bit(d, k) = 1 THEN Bit(v, k) ELSE 1

\* I/O is mapped at $D000-$DFFF when CHAREN is high and LORAM or HIRAM is high
ExposesIO(d, v) ==
    PortLine(d, v, 2) = 1 /\ (PortLine(d, v, 0) = 1 \/ PortLine(d, v, 1) = 1)

\* bytes seen by an instruction fetch
FetchByte(a) ==
    LET w == a % 65536 IN
    IF w = 0 THEN ddr ELSE IF w = 1 THEN port ELSE RamByte(image, mem, w)

Opcode == FetchByte(cpu.pc)
Arg1 == FetchByte(cpu.pc + 1)
ArgAbs == FetchByte(cpu.pc + 1) + 256 * FetchByte(cpu.pc + 2)

IOVisibleAt(a) == IsIOAddr(a) /\ ExposesIO(ddr, port)

\* an access the model has no register for
Unmodelled(a) == IOVisibleAt(a) /\ a \notin IORegs

Logged(a) == a = 1 \/ a \in IORegs

LogAccess(op, a, v) ==
    IF Logged(a)
    THEN Append(buslog, [op |-> op, addr |-> a, val |-> v,
                         exposed |-> ExposesIO(ddr, port), pc |-> cpu.pc])
    ELSE buslog

DataRead(a) ==
    IF a = 0 THEN ddr
    ELSE IF a = 1 THEN port
    ELSE IF IOVisibleAt(a) THEN io[a]
    ELSE RamByte(image, mem, a)

\* a store of v to address a
Store(a, v) ==
    /\ ~Unmodelled(a)
    /\ buslog' = LogAccess("w", a, v)
    /\ IF a = 0 THEN ddr' = v /\ UNCHANGED <<port, io, mem>>
       ELSE IF a = 1 THEN port' = v /\ UNCHANGED <<ddr, io, mem>>
       ELSE IF IOVisibleAt(a)
       THEN io' = [io EXCEPT ![a] = v] /\ UNCHANGED <<ddr, port, mem>>
       ELSE /\ mem' = IF a \in DOMAIN mem THEN [mem EXCEPT ![a] = v]
                      ELSE (a :> v) @@ mem
            /\ UNCHANGED <<ddr, port, io>>

SetNZ(c, v) == [c EXCEPT !.z = (v = 0), !.n = (v >= 128)]

Advance(c, n) == [c EXCEPT !.pc = (c.pc + n) % 65536]

Running(op) == phase = "run" /\ Opcode = op

Static == UNCHANGED <<image, snapshot, finder, scanned, ncalls, lastReq, lastRes,
                      prevBlocks, patch, result, extVars>>

KeepMem == UNCHANGED <<mem, ddr, port, io, buslog>>

\* relative branch: target of a taken branch at pc with the given offset byte
BranchTarget(pc, off) == (pc + 2 + (IF off >= 128 THEN off - 256 ELSE off)) % 65536

KnownOpcodes == {169, 162, 160, 173, 189, 157, 153, 141, 133, 134, 154, 72,
                 202, 232, 136, 224, 16, 208, 76, 64}

\* the address the instruction at pc reads or writes (0 when it has none)
EffAddr ==
    IF Opcode \in {173, 141} THEN ArgAbs
    ELSE IF Opcode \in {189, 157} THEN (ArgAbs + cpu.x) % 65536
    ELSE IF Opcode = 153 THEN (ArgAbs + cpu.y) % 65536
    ELSE IF Opcode \in {133, 134} THEN Arg1
    ELSE IF Opcode = 72 THEN 256 + cpu.sp
    ELSE 0

LDA_imm ==
    /\ Running(169)
    /\ cpu' = Advance(SetNZ([cpu EXCEPT !.a = Arg1], Arg1), 2)
    /\ phase' = phase /\ KeepMem /\ Static

LDX_imm ==
    /\ Running(162)
    /\ cpu' = Advance(SetNZ([cpu EXCEPT !.x = Arg1], Arg1), 2)
    /\ phase' = phase /\ KeepMem /\ Static

LDY_imm ==
    /\ Running(160)
    /\ cpu' = Advance(SetNZ([cpu EXCEPT !.y = Arg1], Arg1), 2)
    /\ phase' = phase /\ KeepMem /\ Static

LDA_abs ==
    /\ Running(173)
    /\ ~Unmodelled(EffAddr)
    /\ LET v == DataRead(EffAddr) IN
         /\ cpu' = Advance(SetNZ([cpu EXCEPT !.a = v], v), 3)
         /\ buslog' = LogAccess("r", EffAddr, v)
    /\ phase' = phase /\ UNCHANGED <<mem, ddr, port, io>> /\ Static

LDA_abs_x ==
    /\ Running(189)
    /\ ~Unmodelled(EffAddr)
    /\ LET v == DataRead(EffAddr) IN
         /\ cpu' = Advance(SetNZ([cpu EXCEPT !.a = v], v), 3)
         /\ buslog' = LogAccess("r", EffAddr, v)
    /\ phase' = phase /\ UNCHANGED <<mem, ddr, port, io>> /\ Static

STA_abs_x ==
    /\ Running(157)
    /\ Store(EffAddr, cpu.a)
    /\ cpu' = Advance(cpu, 3)
    /\ phase' = phase /\ Static

STA_abs_y ==
    /\ Running(153)
    /\ Store(EffAddr, cpu.a)
    /\ cpu' = Advance(cpu, 3)
    /\ phase' = phase /\ Static

STA_abs ==
    /\ Running(141)
    /\ Store(EffAddr, cpu.a)
    /\ cpu' = Advance(cpu, 3)
    /\ phase' = phase /\ Static

STA_zp ==
    /\ Running(133)
    /\ Store(EffAddr, cpu.a)
    /\ cpu' = Advance(cpu, 2)
    /\ phase' = phase /\ Static

STX_zp ==
    /\ Running(134)
    /\ Store(EffAddr, cpu.x)
    /\ cpu' = Advance(cpu, 2)
    /\ phase' = phase /\ Static

TXS ==
    /\ Running(154)
    /\ cpu' = Advance([cpu EXCEPT !.sp = cpu.x], 1)
    /\ phase' = phase /\ KeepMem /\ Static

PHA ==
    /\ Running(72)
    /\ Store(EffAddr, cpu.a)
    /\ cpu' = Advance([cpu EXCEPT !.sp = (cpu.sp + 255) % 256], 1)
    /\ phase' = phase /\ Static

DEX ==
    /\ Running(202)
    /\ LET v == (cpu.x + 255) % 256 IN
         cpu' = Advance(SetNZ([cpu EXCEPT !.x = v], v), 1)
    /\ phase' = phase /\ KeepMem /\ Static

INX ==
    /\ Running(232)
    /\ LET v == (cpu.x + 1) % 256 IN
         cpu' = Advance(SetNZ([cpu EXCEPT !.x = v], v), 1)
    /\ phase' = phase /\ KeepMem /\ Static

DEY ==
    /\ Running(136)
    /\ LET v == (cpu.y + 255) % 256 IN
         cpu' = Advance(SetNZ([cpu EXCEPT !.y = v], v), 1)
    /\ phase' = phase /\ KeepMem /\ Static

CPX_imm ==
    /\ Running(224)
    /\ cpu' = Advance(SetNZ(cpu, (cpu.x - Arg1) % 256), 2)
    /\ phase' = phase /\ KeepMem /\ Static

BPL ==
    /\ Running(16)
    /\ cpu' = IF ~cpu.n THEN [cpu EXCEPT !.pc = BranchTarget(cpu.pc, Arg1)]
              ELSE Advance(cpu, 2)
    /\ phase' = phase /\ KeepMem /\ Static

BNE ==
    /\ Running(208)
    /\ cpu' = IF ~cpu.z THEN [cpu EXCEPT !.pc = BranchTarget(cpu.pc, Arg1)]
              ELSE Advance(cpu, 2)
    /\ phase' = phase /\ KeepMem /\ Static

JMP_abs ==
    /\ Running(76)
    /\ cpu' = [cpu EXCEPT !.pc = ArgAbs]
    /\ phase' = phase /\ KeepMem /\ Static

\* RTI pulls P, then PCL, then PCH; the interrupted program resumes
RTI ==
    /\ Running(64)
    /\ LET s1 == (cpu.sp + 1) % 256
           s2 == (cpu.sp + 2) % 256
           s3 == (cpu.sp + 3) % 256
       IN  cpu' = [cpu EXCEPT !.p = FetchByte(256 + s1),
                              !.pc = FetchByte(256 + s2) + 256 * FetchByte(256 + s3),
                              !.sp = s3]
    /\ phase' = "resumed"
    /\ KeepMem /\ Static

\* the processor meets a byte that is no instruction of the generated routines,
\* or an I/O register the model does not hold: what follows is not determined
\* by the generated code
Trap ==
    /\ phase = "run"
    /\ Opcode \notin KnownOpcodes \/ Unmodelled(EffAddr)
    /\ phase' = "trap"
    /\ UNCHANGED cpu /\ KeepMem /\ Static

CpuStep ==
    \/ LDA_imm \/ LDX_imm \/ LDY_imm \/ LDA_abs \/ LDA_abs_x
    \/ STA_abs_x \/ STA_abs_y \/ STA_abs \/ STA_zp \/ STX_zp
    \/ TXS \/ PHA \/ DEX \/ INX \/ DEY \/ CPX_imm \/ BPL \/ BNE \/ JMP_abs \/ RTI
    \/ Trap

---------------------------------------------------------------------------
(* Inputs *)

Run(a, n, v) == [addr |-> a, len |-> n, value |-> v]

ImgZero == [bg |-> "zero", runs |-> <<>>]

\* free runs of several values and sizes, one of them under the I/O window
ImgMixed == [bg |-> "ramp",
             runs |-> <<Run(2048, 48, 170), Run(2304, 40, 187), Run(4096, 100, 204),
                        Run(53248, 64, 17), Run(8192, 32, 0), Run(12288, 300, 85)>>]

ImgNone == [bg |-> "ramp", runs |-> <<>>]
ImgFail3 == [bg |-> "ramp", runs |-> <<Run(2048, 48, 170), Run(2304, 40, 187)>>]
ImgFail9 == [bg |-> "ramp", runs |-> <<Run(16384, 296, 51)>>]
ImgFail10 == [bg |-> "ramp", runs |-> <<Run(16384, 526, 51)>>]

GoodImages == {ImgZero, ImgMixed}
BadImages == {ImgNone, ImgFail3, ImgFail9, ImgFail10}

SnapBase ==
    [cpu |-> [a |-> 1, x |-> 2, y |-> 3, sp |-> 247, pc |-> 49152, p |-> 36],
     mem |-> [cpu_port_data |-> 55, cpu_port_dir |-> 47],
     vic1A |-> 1,
     cia1 |-> [ier |-> 0, cra |-> 17, crb |-> 8],
     cia2 |-> [ier |-> 0, cra |-> 1, crb |-> 0]]

Snapshots ==
    { SnapBase,
      [SnapBase EXCEPT !.cpu.sp = 128, !.cpu.a = 255, !.mem.cpu_port_data = 53,
                       !.cia1.ier = 1, !.cia2.ier = 130],
      [SnapBase EXCEPT !.cpu.sp = 0, !.cpu.pc = 4672, !.cpu.a = 153],
      [SnapBase EXCEPT !.cpu.sp = 1],
      [SnapBase EXCEPT !.cpu.sp = 2, !.cia1.ier = 127],
      [SnapBase EXCEPT !.cpu.sp = 32, !.cpu.p = 165],
      [SnapBase EXCEPT !.cpu.sp = 255, !.mem.cpu_port_data = 52] }

\* What the loader leaves at an address it does not load from the image: the
\* image file holds $0002-$00F7 and $0200-$FFEF only, and the loader works in
\* $00F8-$01FF
LoaderScratch(a) == 234

NotLoaded == (248..511) \cup (65520..65535)

\* images for the RAM finder on its own
FImg31 == [bg |-> "ramp", runs |-> <<Run(4096, 31, 7)>>]
FImg32 == [bg |-> "ramp", runs |-> <<Run(4096, 32, 7)>>]
\* runs that straddle $0200 and $FFEF, and a run wholly below $0200
FImgEdges == [bg |-> "ramp",
              runs |-> <<Run(100, 40, 5), Run(500, 50, 9), Run(65480, 56, 9)>>]
\* a 100-byte run before a 50-byte run, two adjacent runs of different bytes,
\* and a second 50-byte run
FImgBestFit == [bg |-> "ramp",
                runs |-> <<Run(1024, 100, 0), Run(2048, 50, 0), Run(3000, 32, 1),
                           Run(3032, 36, 2), Run(5000, 50, 3)>>]

FindImages == {ImgZero, FImg31, FImg32, FImgEdges, FImgBestFit}

AllocSizes == {0, 32, 40, 50, 101, 65008}

MaxAllocs == 2

---------------------------------------------------------------------------
(* Specification of the conversion and of the restored machine (Spec), and *)
(* of the RAM finder used on its own (SpecFind).                           *)

ResetCpu == [pc |-> 0, a |-> 0, x |-> 0, y |-> 0, sp |-> 255, p |-> 0,
             z |-> FALSE, n |-> FALSE]

InitRest ==
    /\ finder = <<>> /\ scanned = FALSE
    /\ ncalls = 0 /\ lastReq = 0 /\ lastRes = NoneVal /\ prevBlocks = <<>>
    /\ patch = NoneVal /\ result = NoneVal
    /\ phase = "input"
    /\ mem = EmptyRam /\ cpu = ResetCpu /\ ddr = 47 /\ port = 55
    /\ io = [a \in IORegs |-> 0]
    /\ buslog = <<>>

\* nothing is being parsed
NoParse == vsf = NoneVal /\ parser = NoneVal

NoRomh == generator = NoneVal /\ romh = NoneVal

NoFiles == prg = NoneVal /\ fsm = NoneVal

NoLoad == cart = NoneVal /\ handler = NoneVal

NoWindow == extra_blocks = NoneVal /\ ui = NoneVal

NoBuilder == builder = NoneVal /\ crt = NoneVal /\ cartridge = NoneVal

InitExt == NoParse /\ NoRomh /\ NoFiles /\ NoLoad /\ NoWindow /\ NoBuilder

Init ==
    /\ image \in GoodImages \cup BadImages
    /\ snapshot = NoneVal
    /\ InitRest
    /\ InitExt

\* FindRam::new(&snap.mem.ram)
Scan ==
    /\ phase = "input"
    /\ ~scanned
    /\ scanned' = TRUE
    /\ finder' = FindRam_new(image)
    /\ UNCHANGED <<image, snapshot, ncalls, lastReq, lastRes, prevBlocks,
                   patch, result, phase>>
    /\ UNCHANGED runVars
    /\ UNCHANGED extVars

\* ConvertSnapshot::convert once the finder exists: PatchMem::new on a clone of
\* the snapshot's RAM, for a snapshot with this image and any of the register
\* sets in Snapshots
Patch ==
    /\ phase = "input"
    /\ scanned
    /\ \E snap \in Snapshots :
         /\ image \in BadImages => snap = SnapBase
         /\ snapshot' = snap
         /\ \E r \in {convert(snap, image, finder)} :
              /\ result' = [k \in DOMAIN r \ {"patch_mem"} |-> r[k]]
              /\ patch' = r.patch_mem
              /\ finder' = r.patch_mem.finder
              /\ phase' = IF r.ok THEN "patched" ELSE "failed"
    /\ UNCHANGED <<image, scanned, ncalls, lastReq, lastRes, prevBlocks>>
    /\ UNCHANGED runVars
    /\ UNCHANGED extVars

\* the loader has unpacked the patched image to $0200-$FFFF, has used
\* $00F8-$01FF for itself, has selected the all-RAM configuration and jumps
\* to block 9
LoaderJump ==
    /\ phase = "patched"
    /\ mem' = [a \in DOMAIN patch.ram \cup NotLoaded |->
                 IF a \in NotLoaded THEN LoaderScratch(a) ELSE patch.ram[a]]
    /\ cpu' = [ResetCpu EXCEPT !.pc = patch.block9_addr]
    /\ ddr' = 47
    /\ port' = 52
    /\ phase' = "run"
    /\ UNCHANGED <<io, buslog>>
    /\ Static

Next == Scan \/ Patch \/ LoaderJump \/ CpuStep

\* snapshots with every stack pointer and every combination of CIA interrupt
\* masks being zero or not
AllSnapshots ==
    { [SnapBase EXCEPT !.cpu.sp = s, !.cia1.ier = e[1], !.cia2.ier = e[2]] :
        s \in 0..255, e \in {<<0, 0>>, <<1, 0>>, <<0, 130>>, <<127, 3>>} }

\* Patch for any of AllSnapshots
PatchAny ==
    /\ phase = "input"
    /\ scanned
    /\ \E snap \in AllSnapshots :
         /\ snapshot' = snap
         /\ \E r \in {convert(snap, image, finder)} :
              /\ result' = [k \in DOMAIN r \ {"patch_mem"} |-> r[k]]
              /\ patch' = r.patch_mem
              /\ finder' = r.patch_mem.finder
              /\ phase' = IF r.ok THEN "patched" ELSE "failed"
    /\ UNCHANGED <<image, scanned, ncalls, lastReq, lastRes, prevBlocks>>
    /\ UNCHANGED runVars
    /\ UNCHANGED extVars

NextPatch == Scan \/ PatchAny

\* the patcher alone, on every stack pointer (SpecPatch)
SpecPatch == Init /\ [][NextPatch]_vars

Spec == Init /\ [][Next]_vars

\* a direct call finder.allocate(n)
Allocate ==
    /\ phase = "input"
    /\ scanned
    /\ ncalls < MaxAllocs
    /\ \E n \in AllocSizes :
         /\ lastReq' = n
         /\ \E r \in {allocate(finder, n)} :
              /\ lastRes' = r.res
              /\ finder' = r.blocks
    /\ prevBlocks' = finder
    /\ ncalls' = ncalls + 1
    /\ UNCHANGED <<image, snapshot, scanned, patch, result, phase>>
    /\ UNCHANGED runVars
    /\ UNCHANGED extVars

InitFind ==
    /\ image \in FindImages
    /\ snapshot = NoneVal
    /\ InitRest
    /\ InitExt

NextFind == Scan \/ Allocate

SpecFind == InitFind /\ [][NextFind]_vars

---------------------------------------------------------------------------
(* parse_vsf.rs: ParseVSF::parse_import.  A file is a sequence of bytes;   *)
(* Rust's 0-based raw[i] is raw[i + 1] here.  An Option is <<>> or <<v>>.  *)

\* the characters of codes 32..126 (the backquote, code 96, is written "?")
Printable == " !\"#$%&'()*+,-./0123456789:;<=>?@ABCDEFGHIJKLMNOPQRSTUVWXYZ[\\]^_?abcdefghijklmnopqrstuvwxyz{|}~"

Chr(b) == IF b >= 32 /\ b <= 126 THEN SubSeq(Printable, b - 31, b - 31) ELSE "?"

Ord(c) == CHOOSE b \in 32..126 : Chr(b) = c

\* the bytes of an ASCII string
Bytes(str) == [i \in 1..Len(str) |-> Ord(SubSeq(str, i, i))]

RECURSIVE Text(_)
Text(bytes) == IF bytes = <<>> THEN "" ELSE Chr(Head(bytes)) \o Text(Tail(bytes))

\* bytes up to the first NUL as a string; "" when they are not UTF-8 (bytes
\* of 128 and above stand for invalid UTF-8)
trim_nul(bytes) ==
    LET nuls == {i \in 1..Len(bytes) : bytes[i] = 0}
        end_ == IF nuls = {} THEN Len(bytes)
                ELSE (CHOOSE i \in nuls : \A j \in nuls : i <= j) - 1
    IN  IF \E i \in 1..end_ : bytes[i] >= 128 THEN ""
        ELSE Text(SubSeq(bytes, 1, end_))

vsf_magic_ok(magic19) ==
    /\ Len(magic19) = 19
    /\ SubSeq(magic19, 1, 18) = Bytes("VICE Snapshot File")
    /\ magic19[19] \in {32, 0, 26}

\* the name of the compression the head looks like, "" for None
sniff_compression_prefix(head) ==
    IF Len(head) >= 2 /\ head[1] = 31 /\ head[2] = 139 THEN "gzip"
    ELSE IF Len(head) >= 3 /\ SubSeq(head, 1, 3) = Bytes("BZh") THEN "bzip2"
    ELSE IF Len(head) >= 4 /\ SubSeq(head, 1, 4) = <<80, 75, 3, 4>> THEN "zip"
    ELSE ""

\* results: Ok(value), Err(message), or the process aborting (a panic)
OkVal(v) == [kind |-> "ok", val |-> v]
ErrMsg(msg) == [kind |-> "err", msg |-> msg]
Abort(msg) == [kind |-> "panic", msg |-> msg]

UnexpectedEOF == ErrMsg("Unexpected EOF")

\* raw[start..end_]
Slice(raw, start, end_) == SubSeq(raw, start + 1, end_)

\* little-endian values at 0-based offset off
U16At(b, off) == b[off + 1] + 256 * b[off + 2]
U32At(b, off) == U16At(b, off) + 65536 * U16At(b, off + 2)

NotVsfMessage(hint) ==
    "Not a VSF file"
    \o (IF hint = "" THEN ""
        ELSE " (looks like " \o hint \o "-compressed; decompress first)")

VersionText(vmaj, vmin) == ToString(vmaj) \o "." \o ToString(vmin)

VersionMessage(vmaj, vmin) ==
    "Unsupported snapshot format version " \o VersionText(vmaj, vmin) \o "\n\n"
    \o "Only snapshot format 2.0 is supported.\n"
    \o "Your snapshot is format " \o VersionText(vmaj, vmin) \o ".\n\n"
    \o "Please create a new snapshot using VICE x64sc emulator."

MachineMessage(mach) ==
    "Unsupported machine type '" \o mach \o "'\n\n"
    \o "Only snapshots from x64sc emulator (C64SC) are supported.\n"
    \o "Your snapshot is from '" \o mach \o "'.\n\n"
    \o "Please create a new snapshot using x64sc emulator\n"
    \o "(not x64, x64dtv, or other variants)."

\* the size of the file header: magic 19, version 2, machine 16, VICE version 21
HEADER_LEN == 58

\* parse_import_with up to the module loop: Ok(position) or Err
ParseHeader(raw) ==
    IF Len(raw) < 19 THEN UnexpectedEOF
    ELSE IF ~vsf_magic_ok(Slice(raw, 0, 19))
    THEN ErrMsg(NotVsfMessage(sniff_compression_prefix(Slice(raw, 0, 19))))
    ELSE IF Len(raw) < 21 THEN UnexpectedEOF
    ELSE IF raw[20] # 2 \/ raw[21] # 0 THEN ErrMsg(VersionMessage(raw[20], raw[21]))
    ELSE IF Len(raw) < 37 THEN UnexpectedEOF
    ELSE IF trim_nul(Slice(raw, 21, 37)) # "C64SC"
    THEN ErrMsg(MachineMessage(trim_nul(Slice(raw, 21, 37))))
    ELSE IF Len(raw) < HEADER_LEN THEN UnexpectedEOF
    ELSE OkVal(HEADER_LEN)

parse_cpu(payload) ==
    IF Len(payload) < 15 THEN UnexpectedEOF
    ELSE OkVal([a |-> payload[9], x |-> payload[10], y |-> payload[11],
                sp |-> payload[12], pc |-> U16At(payload, 12), p |-> payload[15]])

parse_memory(payload) ==
    IF Len(payload) < 4 + 65536 THEN ErrMsg("C64MEM too short")
    ELSE OkVal([cpu_port_data |-> payload[1], cpu_port_dir |-> payload[2],
                ram |-> Slice(payload, 4, 4 + 65536)])

\* the slice payload[761..761 + 1024] is taken after a length test against
\* 1 + 47 only: a shorter payload makes the slice expression panic
parse_vic(payload) ==
    IF Len(payload) < 1 + 47 THEN ErrMsg("VIC-II module too small")
    ELSE IF Len(payload) < 761 + 1024
    THEN Abort("range end index 1785 out of range for slice of length "
               \o ToString(Len(payload)))
    ELSE OkVal([registers |-> Slice(payload, 1, 1 + 47),
                color_ram |-> Slice(payload, 761, 761 + 1024)])

parse_cia(payload) ==
    IF Len(payload) < 20 THEN UnexpectedEOF
    ELSE OkVal([ora |-> payload[1],
                orb |-> IF payload[2] = 0 THEN 255 ELSE payload[2],
                ddra |-> payload[3], ddrb |-> payload[4],
                tac |-> U16At(payload, 4), tbc |-> U16At(payload, 6),
                tod_10ths |-> payload[9], tod_sec |-> payload[10],
                tod_min |-> payload[11], tod_hr |-> payload[12],
                ier |-> payload[14], cra |-> payload[15], crb |-> payload[16],
                tal |-> U16At(payload, 16), tbl |-> U16At(payload, 18)])

parse_sid(payload) ==
    IF ~(Len(payload) >= 4 + 25) THEN ErrMsg("SID regs offset out of range")
    ELSE OkVal([regs_25 |-> Slice(payload, 4, 4 + 25)])

\* match name.as_str(): the parser's result, or "skip" for an unknown module
ParsePayload(name, payload) ==
    IF name = "MAINCPU" THEN parse_cpu(payload)
    ELSE IF name = "C64MEM" THEN parse_memory(payload)
    ELSE IF name = "VIC-II" THEN parse_vic(payload)
    ELSE IF name = "CIA1" THEN parse_cia(payload)
    ELSE IF name = "CIA2" THEN parse_cia(payload)
    ELSE IF name = "SID" THEN parse_sid(payload)
    ELSE [kind |-> "skip"]

\* the Option variable a module is stored in
ModuleVar(name) ==
    IF name = "MAINCPU" THEN "cpu"
    ELSE IF name = "C64MEM" THEN "mem"
    ELSE IF name = "VIC-II" THEN "vic"
    ELSE IF name = "CIA1" THEN "cia1"
    ELSE IF name = "CIA2" THEN "cia2"
    ELSE "sid"

\* parse_import_with returns res
Returned(st, res) == [st EXCEPT !.stage = "done", !.result = res]

\* the end of one pass through the module loop
StoreModule(st, name, r, end_) ==
    IF r.kind = "skip" THEN [st EXCEPT !.pos = end_]
    ELSE IF r.kind = "ok" THEN [st EXCEPT !.pos = end_, ![ModuleVar(name)] = <<r.val>>]
    ELSE Returned(st, r)

\* one pass through the module loop once name and size have been read
ModuleBody(raw, st, name, size) ==
    IF size < 22 THEN Returned(st, ErrMsg("Module size corrupt"))
    ELSE IF st.pos + 22 + (size - 22) > Len(raw)
    THEN Returned(st, ErrMsg("Module '" \o name \o "' beyond EOF"))
    ELSE StoreModule(st, name,
                     ParsePayload(name, Slice(raw, st.pos + 22, st.pos + size)),
                     st.pos + size)

\* one pass through "while (cur.position() as usize) < self.raw.len()"
ModuleStep(raw, st) ==
    IF ~(st.pos < Len(raw)) \/ st.pos + 16 > Len(raw)
    THEN [st EXCEPT !.stage = "finish"]
    ELSE IF st.pos + 22 > Len(raw) THEN Returned(st, UnexpectedEOF)
    ELSE ModuleBody(raw, st, trim_nul(Slice(raw, st.pos, st.pos + 16)),
                    U32At(raw, st.pos + 18))

\* "Extract Color RAM from main memory ($D800-$DBFF) instead of VIC module"
ColorFix(vic, color_slice) ==
    IF /\ \A i \in 1..Len(color_slice) : color_slice[i] < 16
       /\ Cardinality({i \in 1..Len(color_slice) : color_slice[i] = 0}) < 900
    THEN [vic EXCEPT !.color_ram = color_slice]
    ELSE vic

\* parse_import_with after the module loop, asking for CIA2 before CIA1
FinishParse_order(st) ==
    IF st.cpu = <<>> THEN ErrMsg("MAINCPU missing")
    ELSE IF st.mem = <<>> THEN ErrMsg("C64MEM missing")
    ELSE IF st.vic = <<>> THEN ErrMsg("VIC-II missing")
    ELSE IF st.cia2 = <<>> THEN ErrMsg("CIA2 missing")
    ELSE IF st.cia1 = <<>> THEN ErrMsg("CIA1 missing")
    ELSE IF st.sid = <<>> THEN ErrMsg("SID missing")
    ELSE OkVal([cpu |-> st.cpu[1], mem |-> st.mem[1],
                vic |-> ColorFix(st.vic[1], Slice(st.mem[1].ram, 55296, 56320)),
                cia1 |-> st.cia1[1], cia2 |-> st.cia2[1], sid |-> st.sid[1]])

\* parse_import_with after the module loop
FinishParse(st) ==
    IF st.cpu = <<>> THEN ErrMsg("MAINCPU missing")
    ELSE IF st.mem = <<>> THEN ErrMsg("C64MEM missing")
    ELSE IF st.vic = <<>> THEN ErrMsg("VIC-II missing")
    ELSE IF st.cia1 = <<>> THEN ErrMsg("CIA1 missing")
    ELSE IF st.cia2 = <<>> THEN ErrMsg("CIA2 missing")
    ELSE IF st.sid = <<>> THEN ErrMsg("SID missing")
    ELSE OkVal([cpu |-> st.cpu[1], mem |-> st.mem[1],
                vic |-> ColorFix(st.vic[1], Slice(st.mem[1].ram, 55296, 56320)),
                cia1 |-> st.cia1[1], cia2 |-> st.cia2[1], sid |-> st.sid[1]])

---------------------------------------------------------------------------
(* Snapshot files.  A file is described by its leading bytes, version,     *)
(* machine string, modules (name, declared size, payload bytes present)    *)
(* and the number of bytes missing at its end; RawBytes gives its bytes.   *)

Pad16(bytes) == bytes \o [i \in 1..(16 - Len(bytes)) |-> 0]

U32Bytes(n) == <<n % 256, (n \div 256) % 256, (n \div 65536) % 256, (n \div 16777216) % 256>>

\* payload byte k (1-based) of a module: RAM bytes are the file's fill byte
PayloadByte(name, k, fill) ==
    IF name = "C64MEM" /\ k > 4 THEN fill ELSE (k * 7 + 3) % 256

ModuleBytes(m, fill) ==
    Pad16(Bytes(m.name)) \o <<1, 0>> \o U32Bytes(m.size)
    \o [k \in 1..m.plen |-> PayloadByte(m.name, k, fill)]

RECURSIVE ModulesBytes(_, _, _)
ModulesBytes(mods, i, fill) ==
    IF i > Len(mods) THEN <<>>
    ELSE ModuleBytes(mods[i], fill) \o ModulesBytes(mods, i + 1, fill)

FullBytes(d) ==
    d.magic \o d.ver \o Pad16(Bytes(d.mach))
    \o Bytes("VICE Version") \o <<26>> \o <<3, 9, 0, 0>> \o <<0, 0, 0, 0>>
    \o ModulesBytes(d.mods, 1, d.fill)

CutTail(bytes, cut) == SubSeq(bytes, 1, Len(bytes) - cut)

RawBytes(d) == CutTail(FullBytes(d), d.cut)

\* a module whose declared size matches its payload
Mod(name, plen) == [name |-> name, plen |-> plen, size |-> plen + 22]

MCpu == Mod("MAINCPU", 15)
MMem == Mod("C64MEM", 65540)
MVic == Mod("VIC-II", 1785)
MCia1 == Mod("CIA1", 20)
MCia2 == Mod("CIA2", 20)
MSid == Mod("SID", 29)
MDrive == Mod("DRIVE", 40)

AllModules == <<MCpu, MMem, MVic, MCia1, MCia2, MSid>>

Magic(sep) == Bytes("VICE Snapshot File") \o <<sep>>

Vsf(magic, ver, mach, mods, cut) ==
    [magic |-> magic, ver |-> ver, mach |-> mach, mods |-> mods, cut |-> cut, fill |-> 0]

\* a well-formed header followed by mods, cut bytes missing at the end
VsfMods(mods, cut) == Vsf(Magic(26), <<2, 0>>, "C64SC", mods, cut)

Junk17 == [i \in 1..17 |-> 170]

GoodFiles ==
    { VsfMods(AllModules, 0),
      [VsfMods(AllModules, 0) EXCEPT !.fill = 5],
      Vsf(Magic(0), <<2, 0>>, "C64SC", AllModules, 0),
      Vsf(Magic(32), <<2, 0>>, "C64SC", <<MSid, MCia2, MDrive, MCia1, MVic, MMem, MCpu>>, 0) }

BadMagicFiles ==
    { Vsf(Bytes("VICE Snapshot Fike") \o <<26>>, <<2, 0>>, "C64SC", AllModules, 0),
      Vsf(Magic(65), <<1, 0>>, "C64", <<>>, 0),
      Vsf(<<31, 139>> \o Junk17, <<2, 0>>, "C64SC", <<>>, 0),
      Vsf(Bytes("BZh") \o Junk17, <<2, 0>>, "C64SC", <<>>, 0),
      Vsf(<<80, 75, 3, 4>> \o Junk17, <<2, 0>>, "C64SC", <<>>, 0),
      Vsf(<<31, 139>>, <<2, 0>>, "C64SC", <<>>, 39),
      Vsf(Bytes("BZh"), <<2, 0>>, "C64SC", <<>>, 39),
      Vsf(<<80, 75, 3, 4>>, <<2, 0>>, "C64SC", <<>>, 39),
      Vsf(<<31, 139>> \o Junk17, <<2, 0>>, "C64SC", <<>>, 40),
      Vsf(Magic(26), <<2, 0>>, "C64SC", <<>>, 45) }

BadVersionFiles ==
    { Vsf(Magic(26), <<1, 0>>, "C64SC", AllModules, 0),
      Vsf(Magic(26), <<2, 1>>, "C64SC", <<MCpu>>, 0),
      Vsf(Magic(0), <<3, 0>>, "C128", <<>>, 0),
      Vsf(Magic(26), <<1, 1>>, "C64SC", <<>>, 38) }

BadMachineFiles ==
    { Vsf(Magic(26), <<2, 0>>, "C64", AllModules, 0),
      Vsf(Magic(26), <<2, 0>>, "C128", <<>>, 0),
      Vsf(Magic(32), <<2, 0>>, "C64SCX", <<MCpu>>, 0),
      Vsf(Magic(26), <<2, 0>>, "", <<>>, 0),
      Vsf(Magic(26), <<2, 0>>, "C64SC", <<>>, 10) }

MissingFiles ==
    { VsfMods(<<>>, 0),
      VsfMods(<<MCia1, MSid>>, 0),
      VsfMods(<<MCpu, MSid, MCia2>>, 0),
      VsfMods(<<MCpu, MMem, MCia1, MCia2, MSid>>, 0),
      VsfMods(<<MCpu, MMem, MVic, MCia2, MSid>>, 0),
      VsfMods(<<MCpu, MMem, MVic, MCia1, MSid, MDrive>>, 0),
      VsfMods(<<MCpu, MMem, MVic, MCia1, MCia2>>, 0),
      VsfMods(<<MCpu, MMem, MVic>>, 0) }

\* files whose last module is cut short: inside its name, its version bytes,
\* its size field or its payload
CutFiles ==
    { VsfMods(AllModules \o <<MDrive>>, 52),
      VsfMods(AllModules \o <<MDrive>>, 45),
      VsfMods(AllModules \o <<MDrive>>, 42),
      VsfMods(AllModules \o <<MDrive>>, 1),
      VsfMods(AllModules, 1),
      VsfMods(AllModules, 30),
      VsfMods(AllModules, 40),
      VsfMods(<<MCpu, MCia1>>, 20),
      VsfMods(<<MCpu, MCia1>>, 21),
      VsfMods(<<MCpu, MCia1>>, 25),
      VsfMods(<<MCpu, MCia1>>, 41) }

\* files with a module whose declared length is not the length of its layout
OddSizeFiles ==
    { VsfMods(<<MCpu, [MCia1 EXCEPT !.size = 21]>>, 0),
      VsfMods(<<MCpu, [MCia1 EXCEPT !.size = 0]>>, 0),
      VsfMods(<<Mod("MAINCPU", 14)>>, 0),
      VsfMods(<<Mod("MAINCPU", 0)>>, 0),
      VsfMods(<<MCpu, Mod("C64MEM", 100)>>, 0),
      VsfMods(<<MCpu, Mod("VIC-II", 47)>>, 0),
      VsfMods(<<MCpu, Mod("VIC-II", 48)>>, 0),
      VsfMods(<<MCpu, Mod("VIC-II", 1784)>>, 0),
      VsfMods(<<MCpu, Mod("CIA1", 19), MSid>>, 0),
      VsfMods(<<MCpu, Mod("CIA2", 0)>>, 0),
      VsfMods(<<MCpu, Mod("SID", 28)>>, 0),
      VsfMods(<<MCpu, Mod("SID", 400), Mod("CIA1", 64), Mod("VIC-II", 2000)>>, 0) }

VsfFiles ==
    GoodFiles \cup BadMagicFiles \cup BadVersionFiles \cup BadMachineFiles
    \cup MissingFiles \cup CutFiles \cup OddSizeFiles

---------------------------------------------------------------------------
(* Specification of the parser (SpecParse) *)

ParserStart ==
    [stage |-> "start", pos |-> 0, cpu |-> <<>>, mem |-> <<>>, vic |-> <<>>,
     cia1 |-> <<>>, cia2 |-> <<>>, sid |-> <<>>, result |-> <<>>]

\* no conversion is under way
Idle ==
    /\ image = ImgZero
    /\ snapshot = NoneVal
    /\ InitRest

InitParse ==
    /\ Idle
    /\ NoRomh /\ NoFiles /\ NoLoad /\ NoWindow /\ NoBuilder
    /\ vsf \in VsfFiles
    /\ parser = ParserStart

\* parse_import_with: magic, version, machine, VICE version
ReadHeader ==
    /\ parser # NoneVal
    /\ parser.stage = "start"
    /\ \E r \in {ParseHeader(RawBytes(vsf))} :
         parser' = IF r.kind = "ok"
                   THEN [parser EXCEPT !.stage = "modules", !.pos = r.val]
                   ELSE Returned(parser, r)
    /\ UNCHANGED <<vsf, convVars, runVars, romhVars, fsVars, loadVars, uiVars, crtVars>>

\* parse_import_with: one pass through the module loop
ReadModule ==
    /\ parser # NoneVal
    /\ parser.stage = "modules"
    /\ parser' = ModuleStep(RawBytes(vsf), parser)
    /\ UNCHANGED <<vsf, convVars, runVars, romhVars, fsVars, loadVars, uiVars, crtVars>>

\* parse_import_with: required modules, colour RAM, Ok(C64Snapshot)
FinishModules ==
    /\ parser # NoneVal
    /\ parser.stage = "finish"
    /\ parser' = Returned(parser, FinishParse(parser))
    /\ UNCHANGED <<vsf, convVars, runVars, romhVars, fsVars, loadVars, uiVars, crtVars>>

NextParse == ReadHeader \/ ReadModule \/ FinishModules

SpecParse == InitParse /\ [][NextParse]_vars

---------------------------------------------------------------------------
(* make_romh_asm.rs: MakeROMHAsm::generate_romh.  Offset k of a slice is     *)
(* element k + 1 of its sequence.                                           *)

BANK_SIZE_8K == 8192

Min(a, b) == IF a < b THEN a ELSE b

\* dst[off..off + n].copy_from_slice(&src[..n])
CopyInto(dst, off, src, n) ==
    [i \in 1..Len(dst) |-> IF i > off /\ i <= off + n THEN src[i - off] ELSE dst[i]]

\* romh[0x1FFA..=0x1FFF]: NMI $E000, RESET $E001, IRQ $E000
SetVectors(bank) ==
    [bank EXCEPT ![8187] = 0, ![8188] = 224, ![8189] = 1, ![8190] = 224,
                 ![8191] = 0, ![8192] = 224]

\* "if let Some(ref code) = ..." followed by the bounded copy to offset off
CopyOption(bank, opt, off, max) ==
    IF opt = <<>> THEN bank
    ELSE CopyInto(bank, off, opt[1], Min(Len(opt[1]), max))

generate_romh(assembled, load_save_code, metadata, filenames) ==
    CopyOption(
        CopyOption(
            CopyOption(
                SetVectors(CopyInto([i \in 1..BANK_SIZE_8K |-> 0], 0, assembled,
                                    Min(Len(assembled), BANK_SIZE_8K))),
                load_save_code, 1536, 2560),
            metadata, 4096, 2048),
        filenames, 6144, 2044)

\* inputs of generate_romh.  The assembler is an external library: its
\* output for the ROMH source is either the code alone or the whole window
\* up to the vectors at $FFFA.
Filled(n, b) == [i \in 1..n |-> b]

Assembled(whole) ==
    IF whole THEN Filled(160, 234) \o Filled(8026, 0) \o <<0, 224, 1, 224, 0, 224>>
    ELSE Filled(160, 234)

\* a block of len bytes whose first used bytes are b, the rest zero
Block(len, used, b) == [i \in 1..len |-> IF i <= used THEN b ELSE 0]

\* FileSystemManager::generate_filenames returns 2048 bytes, zero after the names
FilenameBlocks ==
    { <<>>, <<Block(2048, 0, 65)>>, <<Block(2048, 12, 65)>>, <<Block(2048, 2048, 65)>>,
      <<Block(12, 12, 65)>>, <<Block(2042, 2042, 65)>>, <<Block(2043, 2043, 65)>>,
      <<Block(2044, 2044, 65)>> }

MetadataBlocks == { <<>>, <<Block(2048, 32, 77)>>, <<Block(16, 16, 77)>>, <<Block(2100, 2100, 77)>> }

LoadSaveCodes == { <<>>, <<Filled(0, 76)>>, <<Filled(700, 76)>>, <<Filled(2560, 76)>>, <<Filled(2600, 76)>> }

Generators ==
    [whole : BOOLEAN, load_save_code : LoadSaveCodes, metadata : MetadataBlocks,
     filenames : FilenameBlocks]

---------------------------------------------------------------------------
(* Specification of the ROMH generator (SpecRomh) *)

InitRomh ==
    /\ Idle
    /\ NoParse /\ NoFiles /\ NoLoad /\ NoWindow /\ NoBuilder
    /\ generator \in Generators
    /\ romh = NoneVal

GenerateRomh ==
    /\ generator # NoneVal
    /\ romh = NoneVal
    /\ romh' = generate_romh(Assembled(generator.whole), generator.load_save_code,
                             generator.metadata, generator.filenames)
    /\ UNCHANGED <<generator, convVars, runVars, parseVars, fsVars, loadVars, uiVars, crtVars>>

NextRomh == GenerateRomh

SpecRomh == InitRomh /\ [][NextRomh]_vars

---------------------------------------------------------------------------
(* file_system_manager.rs: FileSystemManager::allocate_files.  A file is   *)
(* its name and the length of its data; bank_usage is a function from the  *)
(* banks in use to the bytes used in each.                                 *)

MAX_BANKS_PER_FILE == 8

InSeq(seq, v) == \E i \in 1..Len(seq) : seq[i] = v

\* available_banks.iter().find(|bank| !bank_usage.contains_key(bank))
FirstUnused(available_banks, bank_usage) ==
    LET free == {i \in 1..Len(available_banks) : available_banks[i] \notin DOMAIN bank_usage}
    IN  IF free = {} THEN <<>>
        ELSE <<available_banks[CHOOSE i \in free : \A j \in free : i <= j]>>

\* the lowest-numbered bank in use that is available and not full
PartlyUsedBank_none(available_banks, bank_usage) == <<>>

PartlyUsedBank(available_banks, bank_usage) ==
    LET open == {b \in DOMAIN bank_usage :
                    /\ InSeq(available_banks, b)
                    /\ bank_usage[b] < BANK_SIZE_8K
                    /\ BANK_SIZE_8K - bank_usage[b] > 0}
    IN  IF open = {} THEN <<>> ELSE <<CHOOSE b \in open : \A c \in open : b <= c>>

NoMoreBanks(filename) == "No more banks available for file: " \o filename

\* "Allocate additional banks"
RECURSIVE SpillLoop(_, _, _, _, _)
RECURSIVE SpillChunk(_, _, _, _, _, _)
SpillLoop(filename, banks, bank_usage, remaining_size, available_banks) ==
    IF remaining_size > 0 /\ Len(banks) < MAX_BANKS_PER_FILE
    THEN SpillChunk(filename, banks, bank_usage, remaining_size, available_banks,
                    FirstUnused(available_banks, bank_usage))
    ELSE IF remaining_size > 0
    THEN ErrMsg("File too large to fit in " \o ToString(MAX_BANKS_PER_FILE)
                \o " banks: " \o filename)
    ELSE OkVal([banks |-> banks, bank_usage |-> bank_usage])

SpillChunk(filename, banks, bank_usage, remaining_size, available_banks, next_bank) ==
    IF next_bank = <<>> THEN ErrMsg(NoMoreBanks(filename))
    ELSE SpillLoop(filename, Append(banks, next_bank[1]),
                   (next_bank[1] :> Min(remaining_size, BANK_SIZE_8K)) @@ bank_usage,
                   remaining_size - Min(remaining_size, BANK_SIZE_8K), available_banks)

\* allocate_file from "Record start offset in first bank" on
PlaceFile(file, bank_usage, available_banks, current_bank, start_offset) ==
    IF file.size <= BANK_SIZE_8K - start_offset
    THEN OkVal([banks |-> <<current_bank>>,
                bank_usage |-> [bank_usage EXCEPT ![current_bank] = @ + file.size]])
    ELSE SpillLoop(file.filename, <<current_bank>>,
                   [bank_usage EXCEPT ![current_bank] = BANK_SIZE_8K],
                   file.size - (BANK_SIZE_8K - start_offset), available_banks)

\* allocate_file once the bank to start in is known (<<>>: there is none)
StartIn(file, bank_usage, available_banks, current_bank) ==
    IF current_bank = <<>> THEN ErrMsg(NoMoreBanks(file.filename))
    ELSE IF current_bank[1] \in DOMAIN bank_usage
    THEN PlaceFile(file, bank_usage, available_banks, current_bank[1],
                   bank_usage[current_bank[1]])
    ELSE PlaceFile(file, (current_bank[1] :> 0) @@ bank_usage, available_banks,
                   current_bank[1], 0)

\* Ok(banks and the new bank_usage) or Err
allocate_file(file, bank_usage, available_banks) ==
    IF PartlyUsedBank(available_banks, bank_usage) # <<>>
    THEN StartIn(file, bank_usage, available_banks, PartlyUsedBank(available_banks, bank_usage))
    ELSE StartIn(file, bank_usage, available_banks, FirstUnused(available_banks, bank_usage))

IsPrgExt(ext) ==
    /\ SubSeq(ext, 1, 1) = "."
    /\ SubSeq(ext, 2, 2) \in {"p", "P"}
    /\ SubSeq(ext, 3, 3) \in {"r", "R"}
    /\ SubSeq(ext, 4, 4) \in {"g", "G"}

strip_prg_extension(filename) ==
    IF Len(filename) > 4 /\ IsPrgExt(SubSeq(filename, Len(filename) - 3, Len(filename)))
    THEN SubSeq(filename, 1, Len(filename) - 4)
    ELSE filename

\* the loop body of allocate_files for file, given allocate_file's result r
AfterFile(st, file, r) ==
    IF r.kind = "err" THEN [st EXCEPT !.stage = "done", !.result = r]
    ELSE [st EXCEPT !.next = @ + 1,
                    !.bank_usage = r.val.bank_usage,
                    !.filename_offset = @ + Len(strip_prg_extension(file.filename)) + 1,
                    !.allocations =
                        Append(@, [file |-> file, banks |-> r.val.banks,
                                   start_offset |-> st.bank_usage_start[r.val.banks[1]],
                                   filename_offset |-> st.filename_offset])]

\* the bytes used in each bank before the file is placed (0 for a bank not in use)
UsedIn(bank_usage) == [b \in 0..63 |-> IF b \in DOMAIN bank_usage THEN bank_usage[b] ELSE 0]

\* inputs
File(filename, size) == [filename |-> filename, size |-> size, load_address |-> 2049]

FileLists ==
    { <<>>,
      <<File("a.prg", 5000), File("b.prg", 4000)>>,
      <<File("a.prg", 5000), File("b.PRG", 3000)>>,
      <<File("GAME1.prg", 5000), File("GAME2.prg", 3192), File("x", 1)>>,
      <<File("a.prg", 5000), File("b.prg", 4000), File("c.prg", 100)>>,
      <<File("full.prg", 8192), File(".prg", 100)>>,
      <<File("empty.prg", 0), File("b.prg", 10)>>,
      <<File("a.prg", 8000), File("empty.prg", 0), File("c.prg", 200), File("d.prg", 8200)>>,
      <<File("big.prg", 20000), File("b.prg", 5000)>>,
      <<File("max.prg", 65536)>>,
      <<File("a.prg", 100), File("max.prg", 65536)>>,
      <<File("a.prg", 100), File("most.prg", 57344), File("Tail.Prg", 9000)>> }

BankLists ==
    { <<1, 2, 3>>, <<>>, <<2>>, <<3, 1, 2>>, <<1, 2, 3, 4, 5, 6, 7, 8, 9, 10>>,
      <<5, 6, 7, 8, 9, 10, 11, 12, 13>> }

---------------------------------------------------------------------------
(* Specification of the file allocator (SpecFiles) *)

InitFiles ==
    /\ Idle
    /\ NoParse /\ NoRomh /\ NoLoad /\ NoWindow /\ NoBuilder
    /\ prg \in [files : FileLists, unused_banks : BankLists]
    /\ fsm = [stage |-> "start", next |-> 1, bank_usage |-> <<>>, bank_usage_start |-> UsedIn(<<>>),
              filename_offset |-> 0, allocations |-> <<>>, result |-> <<>>,
              metadata |-> NoneVal]

FilesFrame == UNCHANGED <<prg, convVars, runVars, parseVars, romhVars, loadVars, uiVars, crtVars>>

\* allocate_files: "if files.is_empty() { return Ok(Vec::new()); }"
NoFilesGiven ==
    /\ fsm # NoneVal
    /\ fsm.stage = "start"
    /\ prg.files = <<>>
    /\ fsm' = [fsm EXCEPT !.stage = "done", !.result = OkVal(<<>>)]
    /\ FilesFrame

\* allocate_files: one pass through "for file in files"
AllocateFile ==
    /\ fsm # NoneVal
    /\ fsm.stage \in {"start", "loop"}
    /\ fsm.next <= Len(prg.files)
    /\ \E st \in {[fsm EXCEPT !.stage = "loop", !.bank_usage_start = UsedIn(fsm.bank_usage)]} :
         fsm' = AfterFile(st, prg.files[fsm.next],
                          allocate_file(prg.files[fsm.next], fsm.bank_usage, prg.unused_banks))
    /\ FilesFrame

\* allocate_files: "Ok(allocations)"
FilesAllocated ==
    /\ fsm # NoneVal
    /\ fsm.stage = "loop"
    /\ fsm.next > Len(prg.files)
    /\ fsm' = [fsm EXCEPT !.stage = "done", !.result = OkVal(fsm.allocations)]
    /\ FilesFrame


---------------------------------------------------------------------------
(* load_save_hook.rs: the load handler of generate_romh_handler_asm, one   *)
(* action per label of the search.  The directory is the metadata at $B000 *)
(* (16 bytes per entry, a zero filename pointer after the last one) and    *)
(* the NUL-terminated names at $B800; the requested name is the copy at    *)
(* temp_filename, its length in $B7.                                       *)

\* the most entries the metadata area $B000-$B7FF holds
MaxEntries == 128

RECURSIVE NamesBlock(_, _)
NamesBlock(names, i) ==
    IF i > Len(names) THEN <<>> ELSE names[i] \o <<0>> \o NamesBlock(names, i + 1)

\* offset in the names block of the name of entry i (0-based)
RECURSIVE NameOffset(_, _)
NameOffset(names, i) ==
    IF i = 0 THEN 0 ELSE NameOffset(names, i - 1) + Len(names[i]) + 1

\* LDA ($90),Y with $90/$91 pointing at the name of entry i
StoredByte(names, i, y) ==
    IF NameOffset(names, i) + y < Len(NamesBlock(names, 1))
    THEN NamesBlock(names, 1)[NameOffset(names, i) + y + 1]
    ELSE 0

\* "Case-insensitive: convert PETSCII lowercase to uppercase"
Fold(c) ==
    IF c >= 193 /\ c < 219 THEN c - 128
    ELSE IF c >= 97 /\ c < 123 THEN c - 32
    ELSE c

Goto(h, label) == [h EXCEPT !.pc = label]

\* search_loop .. check_filename
search_loop(c, h) ==
    IF ~(h.entry < Len(c.names)) THEN Goto(h, "file_not_found")
    ELSE IF Len(c.pattern) = 0 THEN Goto(h, "filename_match")
    ELSE [h EXCEPT !.pc = "compare_filename_loop", !.y = 0]

char_matches(h) == [h EXCEPT !.pc = "compare_filename_loop", !.y = (h.y + 1) % 256]

\* compare_filename_loop with a '?' that also accepts the end of the name
compare_chars_anyq(h, ch, st) ==
    IF ch = 42 THEN Goto(h, "filename_match")
    ELSE IF ch = 63 THEN char_matches(h)
    ELSE IF ch = 32
    THEN IF st = 0 THEN Goto(h, "check_remaining_spaces")
         ELSE IF st = 32 THEN char_matches(h)
         ELSE Goto(h, "next_entry")
    ELSE IF Fold(ch) = st THEN char_matches(h)
    ELSE Goto(h, "next_entry")

\* compare_filename_loop once the pattern character ch and the stored byte
\* st at Y are known
compare_chars(h, ch, st) ==
    IF ch = 42 THEN Goto(h, "filename_match")
    ELSE IF ch = 63
    THEN IF st # 0 THEN char_matches(h) ELSE Goto(h, "next_entry")
    ELSE IF ch = 32
    THEN IF st = 0 THEN Goto(h, "check_remaining_spaces")
         ELSE IF st = 32 THEN char_matches(h)
         ELSE Goto(h, "next_entry")
    ELSE IF Fold(ch) = st THEN char_matches(h)
    ELSE Goto(h, "next_entry")

\* temp_filename,Y: the copy of the name, NUL at its end
PatternByte(c, y) == IF y < Len(c.pattern) THEN c.pattern[y + 1] ELSE 0

compare_filename_loop(c, h) ==
    IF h.y = Len(c.pattern) THEN Goto(h, "filename_match")
    ELSE compare_chars(h, PatternByte(c, h.y), StoredByte(c.names, h.entry, h.y))

\* check_remaining_spaces after its INY, ch the pattern character at Y
remaining_spaces(c, h, ch) ==
    IF h.y = Len(c.pattern) THEN Goto(h, "filename_match")
    ELSE IF ch = 32 THEN h
    ELSE IF ch = 42 THEN Goto(h, "filename_match")
    ELSE IF ch = 63 THEN h
    ELSE Goto(h, "next_entry")

check_remaining_spaces(c, h) ==
    remaining_spaces(c, [h EXCEPT !.y = (h.y + 1) % 256], PatternByte(c, (h.y + 1) % 256))

next_entry(h) ==
    IF h.entry + 1 >= MaxEntries THEN [h EXCEPT !.entry = @ + 1, !.pc = "file_not_found"]
    ELSE [h EXCEPT !.entry = @ + 1, !.pc = "search_loop"]

\* filename_match .. load_complete: the entry is loaded, "CLC ... RTS"
filename_match(h) == [h EXCEPT !.pc = "rts", !.carry = 0, !.selected = <<h.entry>>]

\* file_not_found: "SEC ... RTS"
file_not_found(h) == [h EXCEPT !.pc = "rts", !.carry = 1]

\* inputs: stored names are upper-cased by the file system manager
Directories ==
    { <<Bytes("GAME1"), Bytes("GAME2")>>,
      <<Bytes("GAME"), Bytes("GAME 1"), Bytes("GAME1")>>,
      <<Bytes("A B"), Bytes("GAME 2")>> }

Patterns ==
    { Bytes("GAME*"), Bytes("GAM?1"), Bytes("GAME 1"), Bytes("GAME"), Bytes("GAME2"),
      Bytes("game2"), <<199, 193, 205, 197, 50>>, Bytes("GAME ?"), Bytes("GAME  "),
      Bytes("GAME ? *"), Bytes("GAME ?1"), Bytes("*"), <<>>, Bytes("G?"),
      Bytes("GAME1?"), Bytes("GAME??"), Bytes("A"), Bytes("A?B"), Bytes("NONE"),
      Bytes("GAME 2"), Bytes("?????2") }

---------------------------------------------------------------------------
(* Specification of the load handler (SpecLoad) *)

InitLoad ==
    /\ Idle
    /\ NoParse /\ NoRomh /\ NoFiles /\ NoWindow /\ NoBuilder
    /\ cart \in [names : Directories, pattern : Patterns]
    /\ handler = [pc |-> "search_loop", entry |-> 0, y |-> 0, carry |-> 0, selected |-> <<>>]

LoadFrame == UNCHANGED <<cart, convVars, runVars, parseVars, romhVars, fsVars, uiVars, crtVars>>

At(label) == handler # NoneVal /\ handler.pc = label

SearchLoop == At("search_loop") /\ handler' = search_loop(cart, handler) /\ LoadFrame

CompareFilenameLoop ==
    At("compare_filename_loop") /\ handler' = compare_filename_loop(cart, handler) /\ LoadFrame

CheckRemainingSpaces ==
    At("check_remaining_spaces") /\ handler' = check_remaining_spaces(cart, handler) /\ LoadFrame

NextEntry == At("next_entry") /\ handler' = next_entry(handler) /\ LoadFrame

FilenameMatch == At("filename_match") /\ handler' = filename_match(handler) /\ LoadFrame

FileNotFound == At("file_not_found") /\ handler' = file_not_found(handler) /\ LoadFrame

NextLoad ==
    \/ SearchLoop \/ CompareFilenameLoop \/ CheckRemainingSpaces
    \/ NextEntry \/ FilenameMatch \/ FileNotFound

SpecLoad == InitLoad /\ [][NextLoad]_vars

---------------------------------------------------------------------------
(* main.rs: the Convert button's handler with its retry loop, the tab and  *)
(* input-file callbacks.  The handler runs on the UI thread and its        *)
(* dialogs are modal: no other callback runs until it has returned.  What  *)
(* a conversion returns is an input.                                       *)

\* the most entries the override list gets in the model
MaxBlocks == 2

\* what converter.convert(...) can return: Ok(()) or Err(message)
ConversionResults ==
    { [ok |-> TRUE],
      [ok |-> FALSE, err |-> "Memory patching failed: Allocation failed: Failed to allocate block 3 (32 bytes)"],
      [ok |-> FALSE, err |-> "Memory patching failed: Stack too low: SP=$10"],
      [ok |-> FALSE, err |-> "Not a VSF file"],
      [ok |-> FALSE, err |-> "Failed to allocate"] }

\* parse_hex_address: Some(value) for a value of $0100..$FFFF
ValidAddresses == {256, 49152, 65535}

\* show_add_ram_block_dialog, OK pressed on two valid addresses with
\* to_addr >= from_addr: Some((from_addr, to_addr - from_addr + 1))
add_ram_block_bare(from_addr, to_addr) == <<from_addr, to_addr>>

add_ram_block(from_addr, to_addr) == <<from_addr, (to_addr - from_addr + 1) % 65536>>

\* "let end_addr = addr + count - 1" in u16: the sum overflows when the range
\* ends at $FFFF, which panics in a build with overflow checks and wraps in
\* one without
EndAddrOverflows(block) == block[1] + block[2] > 65535

\* the handler after a conversion attempt has returned res
AfterConversion(u, res) ==
    IF res.ok THEN [u EXCEPT !.at = "idle"]
    ELSE IF is_allocation_error(res.err) THEN [u EXCEPT !.at = "choice"]
    ELSE [u EXCEPT !.at = "idle"]

InitUi ==
    /\ Idle
    /\ NoParse /\ NoRomh /\ NoFiles /\ NoLoad /\ NoBuilder
    /\ extra_blocks = <<>>
    /\ ui = [tab |-> "PRG", at |-> "idle", attempts |-> <<>>]

UiFrame == UNCHANGED <<convVars, runVars, parseVars, romhVars, fsVars, loadVars, crtVars>>

\* convert_btn's callback up to the conversion loop
ClickConvert ==
    /\ ui # NoneVal
    /\ ui.at = "idle"
    /\ ui' = [ui EXCEPT !.at = "loop", !.attempts = <<>>]
    /\ UNCHANGED extra_blocks
    /\ UiFrame

\* one conversion: "let current_blocks = extra_blocks.borrow().clone()" up to
\* "match result"
Convert ==
    /\ ui # NoneVal
    /\ ui.at = "loop"
    /\ \E res \in ConversionResults :
         /\ ui' = AfterConversion(
                      [ui EXCEPT !.attempts = Append(@, [blocks |-> extra_blocks,
                                                         result |-> res])],
                      res)
         /\ extra_blocks' = IF res.ok THEN <<>> ELSE extra_blocks
    /\ UiFrame

\* "Would you like to add a free RAM block manually?": No or closed, or Yes
\* and show_add_ram_block_dialog is cancelled
DeclineBlock ==
    /\ ui # NoneVal
    /\ ui.at = "choice"
    /\ ui' = [ui EXCEPT !.at = "idle"]
    /\ UNCHANGED extra_blocks
    /\ UiFrame

\* Yes, and show_add_ram_block_dialog returns a block
AddBlock ==
    /\ ui # NoneVal
    /\ ui.at = "choice"
    /\ Len(extra_blocks) < MaxBlocks
    /\ \E from_addr \in ValidAddresses, to_addr \in ValidAddresses :
         /\ to_addr >= from_addr
         /\ extra_blocks' = Append(extra_blocks, add_ram_block(from_addr, to_addr))
         /\ \E outcome \in (IF EndAddrOverflows(add_ram_block(from_addr, to_addr))
                            THEN {"loop", "panic"} ELSE {"loop"}) :
              ui' = [ui EXCEPT !.at = outcome]
    /\ UiFrame

\* tabs' callback
SwitchTab ==
    /\ ui # NoneVal
    /\ ui.at = "idle"
    /\ ui' = [ui EXCEPT !.tab = IF @ = "PRG" THEN "CRT" ELSE "PRG"]
    /\ extra_blocks' = <<>>
    /\ UiFrame

\* prg_input_btn / crt_input_btn callback with a file chosen
SelectInput ==
    /\ ui # NoneVal
    /\ ui.at = "idle"
    /\ extra_blocks' = <<>>
    /\ UNCHANGED ui
    /\ UiFrame

NextUi ==
    \/ ClickConvert \/ Convert \/ DeclineBlock \/ AddBlock
    \/ SwitchTab \/ SelectInput

SpecUi == InitUi /\ [][NextUi]_vars

---------------------------------------------------------------------------
(* crt_builder.rs: CRTBuilder.  banks[i + 1] is bank i; banks_romh[i + 1]  *)
(* is <<>> or <<data>>.                                                    *)

LOAD_ADDRESS_ROML == 32768
LOAD_ADDRESS_ROMH == 57344

\* the most banks a builder gets in the model
MaxBanks == 2

\* to_be_bytes of a u16 and of a u32
BE16(n) == <<(n \div 256) % 256, n % 256>>
BE32(n) == BE16((n \div 65536) % 65536) \o BE16(n % 65536)

\* str::to_uppercase on ASCII bytes
ToUpper(bytes) == [i \in 1..Len(bytes) |-> IF bytes[i] >= 97 /\ bytes[i] <= 122
                                           THEN bytes[i] - 32 ELSE bytes[i]]

ZeroBank == [i \in 1..BANK_SIZE_8K |-> 0]

RECURSIVE AddBanks(_, _)
AddBanks(b, n) ==
    IF n = 0 THEN b
    ELSE AddBanks([b EXCEPT !.banks = Append(@, ZeroBank), !.banks_romh = Append(@, <<>>)],
                  n - 1)

CRTBuilder_new(initial_banks, name) ==
    IF initial_banks = 0 THEN ErrMsg("Must have at least one bank")
    ELSE IF Len(name) > 32 THEN ErrMsg("Name cannot be longer than 32 characters")
    ELSE OkVal(AddBanks([name |-> ToUpper(name), banks |-> <<>>, banks_romh |-> <<>>],
                        initial_banks))

\* Ok with the builder as it then is, or Err with the builder unchanged
set_bank_romh(b, bank_number, data) ==
    IF bank_number >= Len(b.banks) THEN b
    ELSE IF Len(data) # BANK_SIZE_8K THEN b
    ELSE [b EXCEPT !.banks_romh[bank_number + 1] = <<data>>]

fill_bank(b, bank_number, data, offset) ==
    IF bank_number >= Len(b.banks) THEN b
    ELSE IF offset + Len(data) > BANK_SIZE_8K THEN b
    ELSE [b EXCEPT !.banks[bank_number + 1] = CopyInto(@, offset, data, Len(data))]

\* the 32-byte name field: at most 31 bytes of the name, then zeros
NameField(name) ==
    [i \in 1..32 |-> IF i <= Min(Len(name), 31) THEN name[i] ELSE 0]

create_file_header(name) ==
    Bytes("C64 CARTRIDGE   ") \o BE32(64) \o BE16(256) \o BE16(32) \o <<1, 0>>
    \o <<0, 0, 0, 0, 0, 0>> \o NameField(name)

\* create_chip_packet whose length field is the ROM length alone
create_chip_packet_rom(bank_number, start_address, data) ==
    Bytes("CHIP") \o BE32(Len(data)) \o BE16(2) \o BE16(bank_number % 65536)
    \o BE16(start_address) \o BE16(Len(data) % 65536) \o data

create_chip_packet(bank_number, start_address, data) ==
    Bytes("CHIP") \o BE32(16 + Len(data)) \o BE16(2) \o BE16(bank_number % 65536)
    \o BE16(start_address) \o BE16(Len(data) % 65536) \o data

\* "if let Some(romh_data) = &self.banks_romh[index]"
RomhPacket(index, romh_data) ==
    IF romh_data = <<>> THEN <<>>
    ELSE create_chip_packet(index, LOAD_ADDRESS_ROMH, romh_data[1])

\* "for (index, bank) in self.banks.iter().enumerate()" from index on
RECURSIVE BankPackets(_, _, _)
BankPackets(banks, banks_romh, index) ==
    IF index >= Len(banks) THEN <<>>
    ELSE create_chip_packet(index, LOAD_ADDRESS_ROML, banks[index + 1])
         \o RomhPacket(index, banks_romh[index + 1])
         \o BankPackets(banks, banks_romh, index + 1)

generate_crt_data(b) ==
    create_file_header(b.name) \o BankPackets(b.banks, b.banks_romh, 0)

\* inputs
CartridgeNames ==
    { Bytes("Test"), Bytes("abcdefghijklmnopqrstuvwxyz012345"),
      Bytes("abcdefghijklmnopqrstuvwxyz0123456") }

RomhImages == { Filled(BANK_SIZE_8K, 224), Filled(100, 224) }

---------------------------------------------------------------------------
(* Specification of the cartridge builder (SpecCrt) *)

InitCrt ==
    /\ Idle
    /\ NoParse /\ NoRomh /\ NoFiles /\ NoLoad /\ NoWindow
    /\ \E initial_banks \in 0..MaxBanks, name \in CartridgeNames :
         builder = CRTBuilder_new(initial_banks, name)
    /\ crt = NoneVal
    /\ cartridge = NoneVal

CrtFrame == UNCHANGED <<cartridge, convVars, runVars, parseVars, romhVars, fsVars, loadVars, uiVars>>

Built == builder # NoneVal /\ builder.kind = "ok"

AddBank ==
    /\ Built
    /\ Len(builder.val.banks) < MaxBanks
    /\ builder' = [builder EXCEPT !.val = AddBanks(@, 1)]
    /\ UNCHANGED crt
    /\ CrtFrame

SetBankRomh ==
    /\ Built
    /\ \E bank_number \in 0..MaxBanks, data \in RomhImages :
         builder' = [builder EXCEPT !.val = set_bank_romh(@, bank_number, data)]
    /\ UNCHANGED crt
    /\ CrtFrame

FillBank ==
    /\ Built
    /\ \E bank_number \in {0, MaxBanks}, offset \in {0, 8190} :
         builder' = [builder EXCEPT !.val = fill_bank(@, bank_number, <<1, 2, 3>>, offset)]
    /\ UNCHANGED crt
    /\ CrtFrame

GenerateCrtData ==
    /\ Built
    /\ crt' = generate_crt_data(builder.val)
    /\ UNCHANGED builder
    /\ CrtFrame

NextCrt == AddBank \/ SetBankRomh \/ FillBank \/ GenerateCrtData

SpecCrt == InitCrt /\ [][NextCrt]_vars

---------------------------------------------------------------------------
(* convert_snapshot_magic_desk_crt.rs: ConvertSnapshotMagicDeskCRT::convert *)
(* from the point where the three parts and the boot code exist.            *)

\* "let max_banks = 64"
MAX_BANKS == 64

\* the boot code of make_magic_desk_boot_asm.rs: 62 bytes of header and
\* cold start, 84 bytes of trampoline, whatever the restore code's size
BOOT_CODE_SIZE == 146

\* n bytes that differ from part to part and from place to place
Part(p, n) == [i \in 1..n |-> (p * 85 + i + i \div 256) % 256]

\* RequiredBanks that rounds the banks after bank 0 down
RequiredBanks_floor(total_payload_size, bank0_payload_space) ==
    IF total_payload_size <= bank0_payload_space THEN 1
    ELSE 1 + (total_payload_size - bank0_payload_space) \div BANK_SIZE_8K

RequiredBanks(total_payload_size, bank0_payload_space) ==
    IF total_payload_size <= bank0_payload_space THEN 1
    ELSE 1 + ((total_payload_size - bank0_payload_space) + BANK_SIZE_8K - 1) \div BANK_SIZE_8K

Max(a, b) == IF a > b THEN a ELSE b

\* fill_bank returns Err
FillFails(b, bank_number, data, offset) ==
    bank_number >= Len(b.banks) \/ offset + Len(data) > BANK_SIZE_8K

TooLargeMessage == "Snapshot data is too large for Magic Desk cartridge!"

WriteFailedMessage == "Failed to write all data to CRT banks!"

\* the conversion ends with Err(msg)
Failed(c, msg) == [c EXCEPT !.stage = "done", !.outcome = ErrMsg(msg)]

\* "Fill bank 0: boot code first, then payload"
MdFillBank0(c, b, num_banks, payload, bank0_chunk) ==
    [c |-> [c EXCEPT !.stage = "fill", !.num_banks = num_banks, !.payload = payload,
                     !.data_offset = bank0_chunk, !.bank_idx = 1],
     b |-> OkVal(fill_bank(fill_bank(b, 0, c.boot, 0), 0,
                           SubSeq(payload, 1, bank0_chunk), Len(c.boot)))]

\* payload.extend_from_slice of the three parts
Payload(lens) == Part(1, lens[1]) \o Part(2, lens[2]) \o Part(3, lens[3])

\* lines 199-247: the bank count, the builder and bank 0
MdPlan(c, required_banks) ==
    IF required_banks > MAX_BANKS
    THEN [c |-> Failed(c, TooLargeMessage), b |-> NoneVal]
    ELSE MdFillBank0(c, CRTBuilder_new(Max(required_banks, 8), c.name).val,
                     Max(required_banks, 8), Payload(c.lens),
                     Min(BANK_SIZE_8K - Len(c.boot), c.lens[1] + c.lens[2] + c.lens[3]))

\* one pass of "while data_offset < payload.len() && bank_idx < num_banks"
MdFillNext(c, b, chunk_size) ==
    [c |-> [c EXCEPT !.data_offset = @ + chunk_size, !.bank_idx = @ + 1],
     b |-> fill_bank(b, c.bank_idx,
                     SubSeq(c.payload, c.data_offset + 1, c.data_offset + chunk_size), 0)]

\* lines 258-273
MdEnd(c) ==
    IF c.data_offset < Len(c.payload) THEN Failed(c, WriteFailedMessage)
    ELSE [c EXCEPT !.stage = "done", !.outcome = OkVal("crt")]

\* inputs: the lengths of restore code, relocated decompressor and RAM.lzsa
MdLens ==
    { <<0, 0, 0>>, <<600, 300, 100>>, <<600, 300, 7146>>, <<600, 300, 7147>>,
      <<3000, 300, 20000>>, <<3000, 300, 62090>>, <<3000, 300, 62091>>,
      <<3000, 300, 70000>>, <<8000, 400, 100000>>,
      <<3000, 300, 520842>>, <<3000, 300, 520843>>, <<3000, 300, 600000>> }

Conversion(kind, lens) ==
    [kind |-> kind, stage |-> "parts", name |-> Bytes("VICE SNAPSHOT"),
     boot |-> IF kind = "md" THEN Part(0, BOOT_CODE_SIZE) ELSE <<>>,
     lens |-> lens, payload |-> <<>>,
     num_banks |-> 0, data_offset |-> 0, bank_idx |-> 0, offset |-> 0,
     outcome |-> NoneVal]

---------------------------------------------------------------------------
(* Specification of the 8 KiB cartridge conversion (SpecMagic) *)

InitMagic ==
    /\ Idle
    /\ NoParse /\ NoRomh /\ NoFiles /\ NoLoad /\ NoWindow
    /\ builder = NoneVal /\ crt = NoneVal
    /\ \E lens \in MdLens : cartridge = Conversion("md", lens)

CartridgeFrame == UNCHANGED <<crt, convVars, runVars, parseVars, romhVars, fsVars, loadVars, uiVars>>

MdStage(st) == cartridge # NoneVal /\ cartridge.kind = "md" /\ cartridge.stage = st

PlanBanks ==
    /\ MdStage("parts")
    /\ \E r \in {MdPlan(cartridge, RequiredBanks(cartridge.lens[1] + cartridge.lens[2] + cartridge.lens[3], BANK_SIZE_8K - Len(cartridge.boot)))} :
         cartridge' = r.c /\ builder' = r.b
    /\ CartridgeFrame

FillNextBank ==
    /\ MdStage("fill")
    /\ cartridge.data_offset < Len(cartridge.payload)
    /\ cartridge.bank_idx < cartridge.num_banks
    /\ \E r \in {MdFillNext(cartridge, builder.val, Min(BANK_SIZE_8K, Len(cartridge.payload) - cartridge.data_offset))} :
         cartridge' = r.c /\ builder' = OkVal(r.b)
    /\ CartridgeFrame

EndFill ==
    /\ MdStage("fill")
    /\ ~(cartridge.data_offset < Len(cartridge.payload)
         /\ cartridge.bank_idx < cartridge.num_banks)
    /\ cartridge' = MdEnd(cartridge)
    /\ UNCHANGED builder
    /\ CartridgeFrame

NextMagic == PlanBanks \/ FillNextBank \/ EndFill

SpecMagic == InitMagic /\ [][NextMagic]_vars

---------------------------------------------------------------------------
(* convert_snapshot_crt.rs: ConvertSnapshotCRT::convert from the point     *)
(* where the three parts exist, for a configuration without an include     *)
(* directory (no files, no LOAD/SAVE code).                                *)

DoesNotFitMessage == "Data does not fit in bank"

\* "Add relocated decompressor": bank 0 and the offset after it
EfRelocated(c, b, final_relocated, offset) ==
    IF offset + Len(final_relocated) <= BANK_SIZE_8K
    THEN [c |-> [c EXCEPT !.stage = "ram", !.offset = offset + Len(final_relocated)],
          b |-> OkVal(fill_bank(b, 0, final_relocated, offset))]
    ELSE [c |-> [c EXCEPT !.stage = "ram", !.offset = offset], b |-> OkVal(b)]

\* lines 219-273: the bank count, the builder, restore code and decompressor
EfPlan(c, b, final_restore_code, final_relocated) ==
    IF FillFails(b, 0, final_restore_code, 0)
    THEN [c |-> Failed([c EXCEPT !.num_banks = Len(b.banks)], DoesNotFitMessage),
          b |-> OkVal(b)]
    ELSE EfRelocated([c EXCEPT !.num_banks = Len(b.banks),
                               !.payload = Part(3, c.lens[3])],
                     fill_bank(b, 0, final_restore_code, 0), final_relocated,
                     Len(final_restore_code))

\* "if current_bank >= total_banks && ram_offset < ram_lzsa.len()"
EfAddBank(c, b) ==
    IF c.bank_idx >= c.num_banks /\ c.data_offset < Len(c.payload)
    THEN AddBanks(b, 1) ELSE b

\* one pass of "while ram_offset < ram_lzsa.len()"; payload is ram_lzsa,
\* data_offset is ram_offset and bank_idx is current_bank
EfFillNext(c, b, chunk_size) ==
    IF FillFails(b, c.bank_idx,
                 SubSeq(c.payload, c.data_offset + 1, c.data_offset + chunk_size), c.offset)
    THEN [c |-> Failed(c, DoesNotFitMessage), b |-> b]
    ELSE [c |-> [c EXCEPT !.data_offset = @ + chunk_size, !.offset = 0, !.bank_idx = @ + 1],
          b |-> EfAddBank([c EXCEPT !.data_offset = @ + chunk_size, !.bank_idx = @ + 1],
                          fill_bank(b, c.bank_idx,
                                    SubSeq(c.payload, c.data_offset + 1,
                                           c.data_offset + chunk_size),
                                    c.offset))]

\* lines 292-314: the high window of bank 0
EfEnd(b) == set_bank_romh(b, 0, generate_romh(Assembled(TRUE), <<>>, <<>>, <<>>))

\* inputs: the lengths of restore code, relocated decompressor and RAM.lzsa
EfLens ==
    { <<r, d, z>> : r \in {2500, 8000, 8193},
                    d \in {192, 300},
                    z \in {0, 100, 5392, 5393, 30000, 50000, 65536} }

---------------------------------------------------------------------------
(* Specification of the 16 KiB cartridge conversion (SpecEasy) *)

InitEasy ==
    /\ Idle
    /\ NoParse /\ NoRomh /\ NoFiles /\ NoLoad /\ NoWindow
    /\ builder = NoneVal /\ crt = NoneVal
    /\ \E lens \in EfLens :
         cartridge = [Conversion("ef", lens) EXCEPT !.name = Bytes("VICE Snapshot")]

EfStage(st) == cartridge # NoneVal /\ cartridge.kind = "ef" /\ cartridge.stage = st

\* restore_banks_needed and total_banks without files
EfTotalBanks(total_restore_data_size) ==
    Max((total_restore_data_size + BANK_SIZE_8K - 1) \div BANK_SIZE_8K, 1)

LayOutCode ==
    /\ EfStage("parts")
    /\ \E r \in {EfPlan(cartridge,
                        CRTBuilder_new(EfTotalBanks(cartridge.lens[1] + cartridge.lens[2] + cartridge.lens[3]), cartridge.name).val,
                        Part(1, cartridge.lens[1]), Part(2, cartridge.lens[2]))} :
         cartridge' = r.c /\ builder' = r.b
    /\ CartridgeFrame

LayOutRam ==
    /\ EfStage("ram")
    /\ cartridge.data_offset < Len(cartridge.payload)
    /\ \E r \in {EfFillNext(cartridge, builder.val,
                            Min(BANK_SIZE_8K - cartridge.offset,
                                Len(cartridge.payload) - cartridge.data_offset))} :
         cartridge' = r.c /\ builder' = OkVal(r.b)
    /\ CartridgeFrame

FinishCartridge ==
    /\ EfStage("ram")
    /\ ~(cartridge.data_offset < Len(cartridge.payload))
    /\ builder' = OkVal(EfEnd(builder.val))
    /\ cartridge' = [cartridge EXCEPT !.stage = "done", !.outcome = OkVal("crt")]
    /\ CartridgeFrame

NextEasy == LayOutCode \/ LayOutRam \/ FinishCartridge

SpecEasy == InitEasy /\ [][NextEasy]_vars

---------------------------------------------------------------------------
(* file_system_manager.rs: generate_metadata and write_files_to_banks, and  *)
(* the steps of convert_snapshot_crt.rs that call them; SpecFiles           *)

FILENAME_START == 47104
METADATA_ENTRY_SIZE == 16

\* the low and the high byte of "v & 0xFF" and "(v >> 8) & 0xFF"
LE16(v) == <<v % 256, (v \div 256) % 256>>

\* "Bank list (8 bytes)"
BankList(banks) ==
    [i \in 1..MAX_BANKS_PER_FILE |-> IF i <= Len(banks) THEN banks[i] % 256 ELSE 0]

\* one pass of the loop of generate_metadata: the entry's 16 bytes
MetadataEntry(allocation) ==
    LE16((FILENAME_START + (allocation.filename_offset % 65536)) % 65536)
    \o BankList(allocation.banks)
    \o LE16(allocation.start_offset)
    \o LE16(allocation.file.size)
    \o LE16(allocation.file.load_address)

generate_metadata(allocations) ==
    IF Len(allocations) * METADATA_ENTRY_SIZE > 2048
    THEN ErrMsg("Too many files - metadata area full")
    ELSE OkVal([i \in 1..2048 |->
                  IF (i - 1) \div METADATA_ENTRY_SIZE < Len(allocations)
                  THEN MetadataEntry(allocations[((i - 1) \div METADATA_ENTRY_SIZE) + 1])[((i - 1) % METADATA_ENTRY_SIZE) + 1]
                  ELSE 0])

\* file.data: the payload of a file of the model
FileData(file) == Part(file.size + Len(file.filename), file.size)

\* WriteChunk that copies to the start of the bank whatever the start offset
WriteChunk_bankstart(b, bank_number, start_offset, data, data_offset, chunk_size) ==
    [b EXCEPT !.banks[bank_number + 1] =
        CopyInto(@, 0, SubSeq(data, data_offset + 1, data_offset + chunk_size),
                 chunk_size)]

\* the body of "for (bank_index, &bank_number) in allocation.banks.iter().enumerate()"
WriteChunk(b, bank_number, start_offset, data, data_offset, chunk_size) ==
    [b EXCEPT !.banks[bank_number + 1] =
        CopyInto(@, start_offset, SubSeq(data, data_offset + 1, data_offset + chunk_size),
                 chunk_size)]

RECURSIVE WriteBanks(_, _, _, _, _)
WriteBanks(b, allocation, data, bank_index, data_offset) ==
    IF bank_index >= Len(allocation.banks) THEN OkVal(b)
    ELSE IF allocation.banks[bank_index + 1] >= Len(b.banks)
    THEN ErrMsg("Bank " \o ToString(allocation.banks[bank_index + 1]) \o " does not exist")
    ELSE WriteBanks(
           WriteChunk(b, allocation.banks[bank_index + 1],
                      IF bank_index = 0 THEN allocation.start_offset ELSE 0,
                      data, data_offset,
                      Min(Len(data) - data_offset,
                          BANK_SIZE_8K - (IF bank_index = 0 THEN allocation.start_offset ELSE 0))),
           allocation, data, bank_index + 1,
           data_offset + Min(Len(data) - data_offset,
                             BANK_SIZE_8K - (IF bank_index = 0 THEN allocation.start_offset ELSE 0)))

\* write_files_to_banks from allocation k on: Ok(builder) or Err
RECURSIVE write_files_to_banks(_, _, _)
write_files_to_banks(r, allocations, k) ==
    IF r.kind = "err" \/ k > Len(allocations) THEN r
    ELSE write_files_to_banks(WriteBanks(r.val, allocations[k], FileData(allocations[k].file), 0, 0),
                              allocations, k + 1)

\* get_allocated_banks(a).into_iter().max().map(|m| m + 1).unwrap_or(0)
FileBanks(allocations) ==
    LET all == UNION { {a.banks[i] : i \in 1..Len(a.banks)} : a \in {allocations[k] : k \in 1..Len(allocations)} }
    IN  IF all = {} THEN 0 ELSE (CHOOSE m \in all : \A n \in all : m >= n) + 1

\* convert_snapshot_crt.rs: "let meta = fs_manager.generate_metadata(&allocations)?"
\* for a directory that held files
GenerateMetadata ==
    /\ fsm # NoneVal
    /\ fsm.stage = "done" /\ fsm.result.kind = "ok" /\ prg.files # <<>>
    /\ fsm.metadata = NoneVal
    /\ fsm' = [fsm EXCEPT !.metadata = generate_metadata(fsm.result.val)]
    /\ FilesFrame

\* convert_snapshot_crt.rs: the builder of max(file_banks, 1) banks and
\* "fs_manager.write_files_to_banks(&mut crt, allocations)?"
WriteFilesToBanks ==
    /\ fsm # NoneVal
    /\ fsm.metadata # NoneVal /\ fsm.metadata.kind = "ok"
    /\ builder = NoneVal
    /\ builder' = write_files_to_banks(
                      CRTBuilder_new(Max(FileBanks(fsm.result.val), 1), Bytes("VICE Snapshot")),
                      fsm.result.val, 1)
    /\ UNCHANGED <<prg, fsm, crt, cartridge, convVars, runVars, parseVars, romhVars, loadVars, uiVars>>

NextFiles ==
    NoFilesGiven \/ AllocateFile \/ FilesAllocated \/ GenerateMetadata \/ WriteFilesToBanks

SpecFiles == InitFiles /\ [][NextFiles]_vars

---------------------------------------------------------------------------
(* Observations of the running machine used by the properties below *)

Started == phase \in {"run", "resumed", "trap"}

\* the byte now in the machine's RAM at address a
MemByte(a) == RamByte(image, mem, a)

\* the byte of the snapshot RAM at address a, before patching
SnapByte(a) == ImageByte(image, a)

BlockRange(k) ==
    patch.blocks[k].address .. (patch.blocks[k].address + patch.blocks[k].size - 1)

InBlock(k) == cpu.pc \in BlockRange(k)

\* where the primary restore routine lies in the stack page
CodeRange == patch.code_start .. (patch.code_start + patch.code_len - 1)

\* the three bytes block 10 pushes for the RTI
FrameAddrs == {256 + snapshot.cpu.sp,
               256 + ((snapshot.cpu.sp + 255) % 256),
               256 + ((snapshot.cpu.sp + 254) % 256)}

StackPage == 256..511

\* where block 9 copies byte j (0-based) of block k (1..8) to
CopyTarget(k, j) ==
    IF k = 1 THEN (IF j < 32 THEN 256 + j ELSE 65520 + (j - 32))
    ELSE IF k = 2 THEN (IF j < 32 THEN 288 + j ELSE 248 + (j - 32))
    ELSE 256 + (k - 1) * 32 + j

\* block 9's copy loops have all run: every byte saved in blocks 1..8 by the
\* patcher is at the place the loops copy it to ($00F8-$00FF is restored from
\* immediates, not from block 2)
CopiedBack ==
    \A k \in 1..8 : \A j \in 0..(IF k = 1 THEN 47 ELSE 31) :
        MemByte(CopyTarget(k, j)) = patch.ram[patch.blocks[k].address + j]

\* the indices of buslog that are writes of an I/O register address
IOWrites == {i \in 1..Len(buslog) : buslog[i].op = "w" /\ buslog[i].addr \in IORegs}

\* the indices of buslog that are writes of the processor port $01
PortWrites == {i \in 1..Len(buslog) : buslog[i].op = "w" /\ buslog[i].addr = 1}

---------------------------------------------------------------------------
(* Properties *)

\* C1 (as stated): once block 9, block 10 and the primary restore routine have
\* run through the RTI, every byte of $0100-$01FF equals the byte of the
\* snapshot RAM at the same address.
C1_Original ==
    phase = "resumed" => \A a \in StackPage : MemByte(a) = SnapByte(a)

\* C1 (amended): once the routines have run through the RTI, every byte of
\* $0100-$01FF that lies neither in the primary restore routine nor in the
\* three-byte RTI frame equals the byte of the snapshot RAM at the same address.
C1_Amended ==
    phase = "resumed" =>
        \A a \in StackPage \ (CodeRange \cup FrameAddrs) : MemByte(a) = SnapByte(a)

\* the RTI has completed on an image whose stack page differs from what the
\* loader left there, with the restore routine placed at the end of the page
C1_Witness ==
    /\ phase = "resumed"
    /\ image = ImgMixed
    /\ snapshot.cpu.sp = 32
    /\ \E a \in StackPage \ (CodeRange \cup FrameAddrs) : SnapByte(a) # LoaderScratch(a)

\* C2 (as stated): after the primary restore routine has run, every byte of
\* block 10, offset 0 to size-1, equals the run byte the allocator returned for
\* block 10.
C2_Original ==
    phase = "resumed" =>
        \A a \in BlockRange(10) : MemByte(a) = patch.blocks[10].original_value

\* C3 (as stated): every write of a VIC-II or CIA register is made while the
\* processor port exposes I/O, and the snapshot's port value is stored to $01
\* only after the last of those writes.
C3_Original ==
    phase = "resumed" =>
        /\ \A i \in IOWrites : buslog[i].exposed
        /\ \A j \in PortWrites : \A i \in IOWrites : i < j

\* C4 (as stated): when the RTI of the primary restore routine completes, A, X,
\* Y, P, PC and SP equal the snapshot's values.
C4_Original ==
    phase = "resumed" =>
        /\ cpu.a = snapshot.cpu.a
        /\ cpu.x = snapshot.cpu.x
        /\ cpu.y = snapshot.cpu.y
        /\ cpu.p = snapshot.cpu.p
        /\ cpu.pc = snapshot.cpu.pc
        /\ cpu.sp = snapshot.cpu.sp

\* C5: from the moment control has left block 9, every byte of $00F8-$00FF and
\* of $FFF0-$FFFF equals the byte of the snapshot RAM at the same address, and
\* stays so while block 10 and the primary restore routine run.
C5_Restored ==
    (Started /\ ~InBlock(9)) =>
        \A a \in (248..255) \cup (65520..65535) : MemByte(a) = SnapByte(a)

\* block 10 is running on an image whose bytes there differ from what the
\* loader left
C5_Witness ==
    /\ phase = "run"
    /\ InBlock(10)
    /\ \E a \in 248..255 : SnapByte(a) # LoaderScratch(a)
    /\ \E a \in 65520..65535 : SnapByte(a) # LoaderScratch(a)

\* C6, state: once control has left blocks 9 and 10, every byte of blocks 1..9
\* equals the run byte the allocator returned for the block; this is so when
\* block 10 hands over to the primary restore routine and stays so for every
\* byte that routine does not store to (it stores to the I/O register
\* addresses only).
C6_Wiped ==
    (Started /\ ~InBlock(9) /\ ~InBlock(10)) =>
        \A k \in 1..9 : \A a \in BlockRange(k) :
            \/ MemByte(a) = patch.blocks[k].original_value
            \/ a \in IORegs /\ IOWrites # {}

\* C6, order: a step of block 9 or block 10 that changes a byte of blocks 1..8
\* is taken only when the blocks' contents have been copied back, and a step
\* that changes a byte of block 9 only when control is outside block 9.
C6_Step ==
    (phase = "run" /\ mem' # mem) =>
        /\ ((InBlock(9) \/ InBlock(10))
            /\ \E k \in 1..8 : \E a \in BlockRange(k) : MemByte(a)' # MemByte(a))
              => CopiedBack
        /\ (\E a \in BlockRange(9) : MemByte(a)' # MemByte(a)) => ~InBlock(9)

AllocationMessage(N, S) ==
    "Failed to allocate block " \o ToString(N) \o " (" \o ToString(S) \o " bytes)"

\* the requests follow the fixed order, and on success there are ten of them
C7_Order ==
    phase \in {"patched", "failed"} =>
        /\ Len(patch.requests) \in 1..10
        /\ \A k \in 1..Len(patch.requests) :
              k <= 8 => patch.requests[k] = <<48, 40, 32, 32, 32, 32, 32, 32>>[k]
        /\ phase = "patched" =>
              /\ Len(patch.requests) = 10
              /\ \A k \in 1..10 : patch.blocks[k].size = patch.requests[k]
        /\ phase = "failed" =>
              \A i \in 1..Len(finder) :
                  finder[i].count < patch.requests[Len(patch.requests)]

ExactlyMaximalRuns(img, bl) ==
    /\ \A i \in 1..Len(bl) :
          /\ bl[i].address >= 512
          /\ bl[i].address + bl[i].count - 1 <= 65519
          /\ bl[i].count >= 32
          /\ \A a \in bl[i].address .. (bl[i].address + bl[i].count - 1) :
                ImageByte(img, a) = bl[i].value
          /\ bl[i].address = 512 \/ ImageByte(img, bl[i].address - 1) # bl[i].value
          /\ \/ bl[i].address + bl[i].count - 1 = 65519
             \/ ImageByte(img, bl[i].address + bl[i].count) # bl[i].value
    /\ \A i, j \in 1..Len(bl) : i # j => bl[i].address # bl[j].address
    /\ \A a \in 512..(65519 - 31) :
          (\A k \in 1..31 : ImageByte(img, a + k) = ImageByte(img, a))
              => \E i \in 1..Len(bl) :
                    a >= bl[i].address /\ a < bl[i].address + bl[i].count

AfterTaking(before, i, n) ==
    IF before[i].count = n
    THEN [k \in 1..(Len(before) - 1) |-> IF k < i THEN before[k] ELSE before[k + 1]]
    ELSE [k \in 1..Len(before) |->
            IF k = i THEN [address |-> before[i].address + n,
                           value   |-> before[i].value,
                           count   |-> before[i].count - n]
            ELSE before[k]]

\* the last allocate call took a smallest block that was large enough
TookBestFit ==
    \E i \in 1..Len(prevBlocks) :
        /\ prevBlocks[i].count >= lastReq
        /\ \A j \in 1..Len(prevBlocks) :
              prevBlocks[j].count >= lastReq => prevBlocks[i].count <= prevBlocks[j].count
        /\ lastRes = <<prevBlocks[i].address, prevBlocks[i].value>>
        /\ finder = AfterTaking(prevBlocks, i, lastReq)

SomeBlockFits == \E i \in 1..Len(prevBlocks) : prevBlocks[i].count >= lastReq

---------------------------------------------------------------------------
(* Observations of the parser used by the properties below *)

\* parse_import has returned
Parsed == parser # NoneVal /\ parser.stage = "done"

IsMagic(b) == \E sep \in {32, 0, 26} : b = Bytes("VICE Snapshot File") \o <<sep>>

Required == <<"MAINCPU", "C64MEM", "VIC-II", "CIA1", "CIA2", "SID">>

\* the bytes of the fixed layout of a module's payload
Layout(name) ==
    IF name = "MAINCPU" THEN 15
    ELSE IF name = "C64MEM" THEN 65540
    ELSE IF name = "VIC-II" THEN 1785
    ELSE IF name \in {"CIA1", "CIA2"} THEN 20
    ELSE IF name = "SID" THEN 29
    ELSE 0

\* module i of the file declares its true size and holds its whole layout
SoundModule(d, i) ==
    /\ d.mods[i].size = d.mods[i].plen + 22
    /\ d.mods[i].plen >= Layout(d.mods[i].name)

\* the file header is complete and acceptable
SoundHeader(d) ==
    /\ IsMagic(d.magic)
    /\ d.ver = <<2, 0>>
    /\ d.mach = "C64SC"

Absent(d, name) == \A i \in 1..Len(d.mods) : d.mods[i].name # name

FirstAbsent(d) ==
    Required[CHOOSE i \in 1..6 :
                 Absent(d, Required[i]) /\ \A j \in 1..(i - 1) : ~Absent(d, Required[j])]

\* the final module of the file has lost between one and all but one of its bytes
CutInFinalModule(d) ==
    /\ SoundHeader(d)
    /\ Len(d.mods) > 0
    /\ \A i \in 1..Len(d.mods) : SoundModule(d, i)
    /\ d.cut > 0
    /\ d.cut < d.mods[Len(d.mods)].size

CompressionOf(raw) ==
    IF Len(raw) >= 2 /\ SubSeq(raw, 1, 2) = <<31, 139>> THEN "gzip"
    ELSE IF Len(raw) >= 3 /\ SubSeq(raw, 1, 3) = <<66, 90, 104>> THEN "bzip2"
    ELSE IF Len(raw) >= 4 /\ SubSeq(raw, 1, 4) = <<80, 75, 3, 4>> THEN "zip"
    ELSE ""

\* the rejections of C11 for the file d with bytes raw and parse result res
Rejected(d, raw, res) ==
    /\ (Len(raw) >= 19 /\ ~IsMagic(SubSeq(raw, 1, 19)))
           => res.kind = "err" /\ StartsWith(res.msg, "Not a VSF file")
    /\ (Len(raw) >= 21 /\ IsMagic(d.magic) /\ d.ver # <<2, 0>>)
           => /\ res.kind = "err"
              /\ StartsWith(res.msg, "Unsupported snapshot format version "
                                     \o ToString(d.ver[1]) \o "." \o ToString(d.ver[2]) \o "\n")
    /\ (Len(raw) >= 37 /\ IsMagic(d.magic) /\ d.ver = <<2, 0>> /\ d.mach # "C64SC")
           => /\ res.kind = "err"
              /\ StartsWith(res.msg, "Unsupported machine type '" \o d.mach \o "'\n")
    /\ (/\ SoundHeader(d) /\ d.cut = 0
        /\ \A i \in 1..Len(d.mods) : SoundModule(d, i)
        /\ \E i \in 1..6 : Absent(d, Required[i]))
           => res = ErrMsg(FirstAbsent(d) \o " missing")

---------------------------------------------------------------------------
(* Properties of the parser *)

\* C11: parse_import returns an error and never a snapshot when the first 19
\* bytes are not "VICE Snapshot File" plus space, NUL or SUB; else when the
\* version is not 2.0 (the message names the version found); else when the
\* machine is not exactly "C64SC" (the message names the string found); or,
\* after all modules have been read, when one of MAINCPU, C64MEM, VIC-II,
\* CIA1, CIA2, SID is absent (the message is "<name> missing" for the first
\* absent one in that order).
C11_Rejects == Parsed => Rejected(vsf, RawBytes(vsf), parser.result)

\* a file with MAINCPU, C64MEM and VIC-II only has been rejected for CIA1
C11_Witness ==
    /\ Parsed
    /\ SoundHeader(vsf) /\ vsf.cut = 0
    /\ Absent(vsf, "CIA1") /\ Absent(vsf, "CIA2") /\ Absent(vsf, "SID")
    /\ ~Absent(vsf, "MAINCPU") /\ ~Absent(vsf, "C64MEM") /\ ~Absent(vsf, "VIC-II")
    /\ parser.result = ErrMsg("CIA1 missing")

\* C12 (as stated): for a stream whose final module is cut short, inside its
\* 22-byte header or inside its payload, parse_import returns the error
\* "Module '<name>' beyond EOF" naming that module, and never a snapshot.
C12_Original ==
    (Parsed /\ CutInFinalModule(vsf)) =>
        parser.result = ErrMsg("Module '" \o vsf.mods[Len(vsf.mods)].name \o "' beyond EOF")

\* C13 (as stated): for every input whose first bytes are the gzip, bzip2 or
\* zip magic, whatever its length, parse_import fails with the not-a-snapshot
\* message extended by a hint naming that compression.
C13_Original ==
    (Parsed /\ CompressionOf(RawBytes(vsf)) # "") =>
        parser.result = ErrMsg("Not a VSF file (looks like " \o CompressionOf(RawBytes(vsf))
                               \o "-compressed; decompress first)")

\* C14 (as stated): for every input, parse_import returns either a snapshot
\* or an error message; no declared payload length of a recognised module
\* makes the parser abort.
C14_Original == Parsed => parser.result.kind \in {"ok", "err"}

\* C15 (as stated): the image returned by generate_romh always holds at
\* offsets $1FFA..$1FFF the vectors $E000, $E001, $E000, whether or not a
\* load/save handler, a file directory and a filename block are embedded.
C15_Original ==
    romh # NoneVal => SubSeq(romh, 8187, 8192) = <<0, 224, 1, 224, 0, 224>>

\* allocate_files has returned Ok
FilesPlaced == fsm # NoneVal /\ fsm.stage = "done" /\ fsm.result.kind = "ok"

\* the data bytes of the files before file i
RECURSIVE BytesBefore(_, _)
BytesBefore(files, i) == IF i <= 1 THEN 0 ELSE BytesBefore(files, i - 1) + files[i - 1].size

\* the banks, in the order available, that hold bytes first..last of the data
BanksOf(available_banks, first, last) ==
    SubSeq(available_banks, (first \div BANK_SIZE_8K) + 1, (last \div BANK_SIZE_8K) + 1)

\* allocation a is where the files' data, laid end to end over the banks in
\* the order available, puts a file of a.file.size bytes that starts at byte
\* first
PackedAt(a, available_banks, first) ==
    /\ a.start_offset = first % BANK_SIZE_8K
    /\ a.banks = BanksOf(available_banks, first,
                         IF a.file.size = 0 THEN first ELSE first + a.file.size - 1)

\* C16 (as stated): each new file starts at the current end of the data
\* already placed, and a file placed into a partly used bank lies entirely
\* inside that bank; for files of 5000 and 4000 bytes and banks [1, 2, 3],
\* file A is at bank 1 offset 0, file B is at bank 1 offset 5000, and neither
\* file's bank list holds more than bank 1.
C16_Original ==
    FilesPlaced =>
        /\ \A i \in 1..Len(fsm.result.val) :
             /\ fsm.result.val[i].start_offset = BytesBefore(prg.files, i) % BANK_SIZE_8K
             /\ fsm.result.val[i].start_offset > 0 => fsm.result.val[i].banks = <<fsm.result.val[i].banks[1]>>
        /\ (/\ Len(prg.files) = 2 /\ prg.files[1].size = 5000 /\ prg.files[2].size = 4000
            /\ prg.unused_banks = <<1, 2, 3>>)
               => /\ fsm.result.val[1].start_offset = 0 /\ fsm.result.val[1].banks = <<1>>
                  /\ fsm.result.val[2].start_offset = 5000 /\ fsm.result.val[2].banks = <<1>>

\* C16 (amended): each new file starts at the current end of the data
\* already placed and, when it is longer than what is left of that bank,
\* goes on from offset 0 of the next unused banks in the order available;
\* for files of 5000 and 4000 bytes and banks [1, 2, 3], file A is at bank 1
\* offset 0 with bank list [1], file B is at bank 1 offset 5000 with bank
\* list [1, 2]: its last 808 bytes cross into bank 2.
C16_Amended ==
    FilesPlaced =>
        /\ \A i \in 1..Len(fsm.result.val) :
             PackedAt(fsm.result.val[i], prg.unused_banks, BytesBefore(prg.files, i))
        /\ (/\ Len(prg.files) = 2 /\ prg.files[1].size = 5000 /\ prg.files[2].size = 4000
            /\ prg.unused_banks = <<1, 2, 3>>)
               => /\ fsm.result.val[1].start_offset = 0 /\ fsm.result.val[1].banks = <<1>>
                  /\ fsm.result.val[2].start_offset = 5000 /\ fsm.result.val[2].banks = <<1, 2>>

\* the files of 5000 and 4000 bytes have been placed in banks [1, 2, 3]
C16_Witness ==
    /\ FilesPlaced
    /\ Len(prg.files) = 2 /\ prg.files[1].size = 5000 /\ prg.files[2].size = 4000
    /\ prg.unused_banks = <<1, 2, 3>>
    /\ Len(fsm.result.val) = 2
    /\ fsm.bank_usage = (1 :> 8192) @@ (2 :> 808)

\* the load handler has returned
Loaded == handler # NoneVal /\ handler.pc = "rts"

\* the pattern matches the stored name from position k on, by the rules of
\* C17; an exhausted pattern accepts
RECURSIVE Matches(_, _, _)
Matches(pat, name, k) ==
    IF k > Len(pat) THEN TRUE
    ELSE IF pat[k] = 42 THEN TRUE
    ELSE IF pat[k] = 63 THEN k <= Len(name) /\ Matches(pat, name, k + 1)
    ELSE IF pat[k] = 32 THEN (k > Len(name) \/ name[k] = 32) /\ Matches(pat, name, k + 1)
    ELSE k <= Len(name) /\ Fold(pat[k]) = name[k] /\ Matches(pat, name, k + 1)

\* as Matches, but once a space has been accepted at the end of the stored
\* name (padded), only spaces and '?' up to a '*' or the pattern's end accept
RECURSIVE MatchesPadded(_, _, _, _)
MatchesPadded(pat, name, k, padded) ==
    IF k > Len(pat) THEN TRUE
    ELSE IF pat[k] = 42 THEN TRUE
    ELSE IF padded THEN pat[k] \in {32, 63} /\ MatchesPadded(pat, name, k + 1, TRUE)
    ELSE IF pat[k] = 63 THEN k <= Len(name) /\ MatchesPadded(pat, name, k + 1, FALSE)
    ELSE IF pat[k] = 32
    THEN IF k > Len(name) THEN MatchesPadded(pat, name, k + 1, TRUE)
         ELSE name[k] = 32 /\ MatchesPadded(pat, name, k + 1, FALSE)
    ELSE k <= Len(name) /\ Fold(pat[k]) = name[k] /\ MatchesPadded(pat, name, k + 1, FALSE)

\* the handler returned the first entry (0-based) of those in hits, or a miss
\* with carry set when hits is empty
Selects(hits) ==
    IF hits = {} THEN handler.selected = <<>> /\ handler.carry = 1
    ELSE handler.selected = <<(CHOOSE i \in hits : \A j \in hits : i <= j) - 1>>

Attempts == IF ui = NoneVal THEN <<>> ELSE ui.attempts

\* a (from, to - from + 1) entry for a valid range
IsRangeEntry(e) ==
    \E from_addr \in 256..65535 :
        /\ e[1] = from_addr
        /\ e[2] >= 1
        /\ from_addr + e[2] - 1 <= 65535

\* C18, state: every attempt but the first was passed the list of the attempt
\* before it with exactly one (from, to - from + 1) entry appended, and that
\* attempt failed with a message containing "Failed to allocate block"; an
\* attempt that failed otherwise, or whose prompt was declined, is the last
\* one; after a successful conversion the override list is empty.
C18_State ==
    /\ \A k \in 2..Len(Attempts) :
         /\ ~Attempts[k - 1].result.ok
         /\ Contains(Attempts[k - 1].result.err, "Failed to allocate block")
         /\ Len(Attempts[k].blocks) = Len(Attempts[k - 1].blocks) + 1
         /\ SubSeq(Attempts[k].blocks, 1, Len(Attempts[k - 1].blocks)) = Attempts[k - 1].blocks
         /\ IsRangeEntry(Attempts[k].blocks[Len(Attempts[k].blocks)])
    /\ (Len(Attempts) > 0 /\ ui.at = "idle" /\ Attempts[Len(Attempts)].result.ok)
           => extra_blocks = <<>>

\* C18, step: a step that starts a retry follows the user supplying a range
\* at the prompt and adds one entry to the override list; a declined prompt
\* ends the handler with the list as it was; switching tabs empties the list.
C18_Step ==
    ui # NoneVal =>
        /\ (ui.at # "idle" /\ ui'.at = "loop")
               => /\ ui.at = "choice"
                  /\ Len(extra_blocks') = Len(extra_blocks) + 1
        /\ (ui.at = "choice" /\ ui'.at = "idle") => extra_blocks' = extra_blocks
        /\ ui'.tab # ui.tab => extra_blocks' = <<>>

\* C18: in the interactive Convert handler a failed conversion is retried
\* only if its message contains "Failed to allocate block" and the user then
\* supplies a valid range; each retry is passed the previous attempt's
\* override list with exactly one new (from, to - from + 1) entry appended;
\* any other error or a declined prompt ends the loop without a retry; the
\* list is emptied on a successful conversion and on switching tabs.
C18_Retries == [](C18_State) /\ [][C18_Step]_vars

\* a third attempt with two overrides has succeeded and emptied the list
C18_Witness ==
    /\ ui # NoneVal
    /\ ui.at = "idle"
    /\ Len(ui.attempts) = 3
    /\ ui.attempts[3].blocks = <<<<256, 49152 - 256 + 1>>, <<49152, 65535 - 49152 + 1>>>>
    /\ ui.attempts[3].result.ok
    /\ extra_blocks = <<>>

\* the packets that precede bank index's low-window packet
PacketsBefore(b, index) ==
    index + Cardinality({j \in 1..index : b.banks_romh[j] # <<>>})

\* the bytes of out at 0-based offsets off .. off + n - 1
At0(out, off, n) == SubSeq(out, off + 1, off + n)

\* out holds at packet position k a CHIP packet of bank index loaded at
\* address with the given data: length field 8208, chip type 2, data length
\* $2000
IsChipPacket(out, k, index, address, data) ==
    /\ At0(out, 64 + 8208 * k, 4) = Bytes("CHIP")
    /\ At0(out, 64 + 8208 * k + 4, 4) = <<0, 0, 32, 16>>
    /\ At0(out, 64 + 8208 * k + 8, 2) = <<0, 2>>
    /\ At0(out, 64 + 8208 * k + 10, 2) = <<0, index>>
    /\ At0(out, 64 + 8208 * k + 12, 2) = <<address \div 256, address % 256>>
    /\ At0(out, 64 + 8208 * k + 14, 2) = <<32, 0>>
    /\ At0(out, 64 + 8208 * k + 16, 8192) = data

\* out is the cartridge file of builder b as C19 describes it
IsCrtOf(b, out) ==
    /\ Len(out) = 64 + 8208 * (Len(b.banks) + Cardinality({j \in 1..Len(b.banks) :
                                                               b.banks_romh[j] # <<>>}))
    /\ At0(out, 0, 16) = Bytes("C64 CARTRIDGE   ")
    /\ At0(out, 16, 4) = <<0, 0, 0, 64>>
    /\ \A index \in 0..(Len(b.banks) - 1) :
         /\ IsChipPacket(out, PacketsBefore(b, index), index, 32768, b.banks[index + 1])
         /\ b.banks_romh[index + 1] # <<>> =>
              IsChipPacket(out, PacketsBefore(b, index) + 1, index, 57344,
                           b.banks_romh[index + 1][1])

\* C19: generate_crt_data emits the 64-byte header followed, for each bank in
\* ascending index order, by one low-window CHIP packet (load address $8000)
\* and, only if that bank has a high window, immediately one high-window CHIP
\* packet (load address $E000) with the same bank index; every CHIP packet is
\* 8208 bytes with length field 8208, chip type 2 and data length $2000, so
\* the file is 64 + 8208 x (banks + banks with a high window) bytes long.
C19_Packets == [][crt' # crt => IsCrtOf(builder.val, crt')]_vars

\* the file of a builder with two banks, a high window in bank 1 only and
\* data in bank 0 has been generated
C19_Witness ==
    /\ builder # NoneVal /\ builder.kind = "ok"
    /\ crt # NoneVal
    /\ Len(builder.val.banks) = 2
    /\ builder.val.banks_romh[1] = <<>> /\ builder.val.banks_romh[2] # <<>>
    /\ builder.val.banks[1][1] = 1
    /\ IsCrtOf(builder.val, crt)

\* the indices of buslog that are accesses of an I/O register address made by
\* an instruction of the primary restore routine
RoutineIO ==
    {i \in 1..Len(buslog) : buslog[i].pc \in CodeRange /\ buslog[i].addr \in IORegs}

\* the CIA control registers A and B
ControlRegs == {56334, 56335, 56590, 56591}

\* the primary restore routine has stored to all four control registers
TimersStarted ==
    \A a \in ControlRegs :
        \E i \in RoutineIO : buslog[i].op = "w" /\ buslog[i].addr = a

\* C20, order: of the accesses the primary restore routine makes to the I/O
\* register addresses, every read of $DC0D or $DD0D comes after a write of 0
\* to $D01A, and every write of $DC0E, $DC0F, $DD0E or $DD0F comes after every
\* access of another register.
C20_Order ==
    Started =>
        /\ \A i \in RoutineIO :
             (buslog[i].op = "r" /\ buslog[i].addr \in {56333, 56589}) =>
                 \E j \in RoutineIO :
                     /\ j < i
                     /\ buslog[j].op = "w" /\ buslog[j].addr = 53274 /\ buslog[j].val = 0
        /\ \A i \in RoutineIO :
             (buslog[i].op = "w" /\ buslog[i].addr \in ControlRegs) =>
                 \A j \in RoutineIO : buslog[j].addr \notin ControlRegs => j < i

\* C20, tail: once the four control registers have been written the routine
\* executes only LDX #, LDY #, LDA # and RTI, none of which accesses memory
\* other than the RTI's pulls.
C20_Tail ==
    (phase = "run" /\ TimersStarted /\ cpu' # cpu) =>
        /\ Opcode \in {162, 160, 169, 64}
        /\ UNCHANGED <<mem, ddr, port, io, buslog>>

\* C20: in the primary restore routine the write $D01A := 0 precedes the first
\* read of $DC0D or $DD0D, and the writes of the CIA control registers A and B
\* ($DC0E, $DC0F, $DD0E, $DD0F) come after every other I/O register access, so
\* that only the loads of X, Y and A and the RTI follow them.
C20_Restore == [](C20_Order) /\ [][C20_Tail]_vars

\* the routine has run through the RTI for a snapshot with both CIA interrupt
\* masks set: it has drained the CIAs, enabled their interrupts and started
\* the timers
C20_Witness ==
    /\ phase = "resumed"
    /\ snapshot.cia1.ier # 0 /\ snapshot.cia2.ier # 0
    /\ TimersStarted
    /\ \E i \in RoutineIO : buslog[i].op = "r" /\ buslog[i].addr = 56333
    /\ \E i \in RoutineIO : buslog[i].op = "w" /\ buslog[i].addr = 56589

\* the length of the payload of the conversion in hand
TotalLen == cartridge.lens[1] + cartridge.lens[2] + cartridge.lens[3]

\* the least number of 8 KiB banks that hold n bytes (one bank for none)
LeastBanks(n) ==
    CHOOSE k \in 1..128 : k * 8192 >= n /\ (k = 1 \/ (k - 1) * 8192 < n)

\* byte k (from 1) of the low windows of the builder's banks read one after
\* another from bank 0 offset 0
LowByte(k) == builder.val.banks[((k - 1) \div 8192) + 1][((k - 1) % 8192) + 1]

\* byte k (from 1) of restore code, relocated decompressor and compressed RAM
\* laid end to end
PartsByte(k) ==
    IF k <= cartridge.lens[1] THEN Part(1, cartridge.lens[1])[k]
    ELSE IF k <= cartridge.lens[1] + cartridge.lens[2]
    THEN Part(2, cartridge.lens[2])[k - cartridge.lens[1]]
    ELSE Part(3, cartridge.lens[3])[k - cartridge.lens[1] - cartridge.lens[2]]

MdPlanned == cartridge # NoneVal /\ cartridge.kind = "md" /\ cartridge.stage # "parts"

MdSucceeded == MdPlanned /\ cartridge.stage = "done" /\ cartridge.outcome.kind = "ok"

\* C21: in the 8 KiB cartridge conversion the bank count is max(required_banks,
\* 8), where required_banks is the least number of 8 KiB banks that hold the
\* boot code followed by the payload; a conversion with required_banks > 64 is
\* rejected; on success every payload byte has been written contiguously after
\* the boot code, and the error of not having written all data is never
\* returned.
C21_Banks ==
    MdPlanned =>
        /\ (cartridge.outcome # NoneVal /\ cartridge.outcome = ErrMsg(TooLargeMessage))
              <=> LeastBanks(BOOT_CODE_SIZE + TotalLen) > 64
        /\ builder # NoneVal =>
              Len(builder.val.banks) = Max(LeastBanks(BOOT_CODE_SIZE + TotalLen), 8)
        /\ cartridge.outcome # ErrMsg(WriteFailedMessage)
        /\ MdSucceeded =>
              /\ \A k \in 1..BOOT_CODE_SIZE : LowByte(k) = cartridge.boot[k]
              /\ \A k \in 1..TotalLen : LowByte(BOOT_CODE_SIZE + k) = PartsByte(k)

\* a conversion whose payload needs nine banks has succeeded
C21_Witness ==
    /\ MdSucceeded
    /\ LeastBanks(BOOT_CODE_SIZE + TotalLen) = 9
    /\ Len(builder.val.banks) = 9
    /\ cartridge.data_offset = TotalLen

\* C22: after construction and after any sequence of allocate calls
\* (successful or not) the free-block list is in strictly ascending address
\* order, its blocks are pairwise non-overlapping, and every block lies
\* entirely inside $0200..=$FFEF.
C22_FreeList ==
    scanned =>
        /\ \A i \in 1..Len(finder) :
             /\ finder[i].count >= 1
             /\ finder[i].address >= 512
             /\ finder[i].address + finder[i].count - 1 <= 65519
        /\ \A i \in 1..Len(finder) : \A j \in 1..Len(finder) :
             i < j => finder[i].address + finder[i].count <= finder[j].address

\* a list of several blocks after an allocation that split a block which is
\* not the last, and after one that failed
C22_Witness ==
    /\ scanned /\ phase = "input" /\ ncalls = 2
    /\ Len(finder) >= 3
    /\ lastRes = NoneVal
    /\ \E i \in 1..(Len(finder) - 1) :
         /\ i <= Len(prevBlocks)
         /\ finder[i].address > FindRam_new(image)[i].address

\* PatchMem::new has returned
Patched == phase \in {"patched", "failed"}

\* where C23 puts a routine of L bytes for stack pointer sp: -1 stands for the
\* restore-code-too-large error
PlaceOf(sp, L) ==
    IF L > 256 THEN -1
    ELSE IF sp - 6 >= L THEN 256 + sp - 6 - L
    ELSE 512 - L

RestoreTooLarge ==
    phase = "failed" /\ patch.err.kind = "CodeTooLarge"
    /\ StartsWith(patch.err.msg, "Restore code")

\* C23: the primary restore routine of length L is written to [start, start+L)
\* inside $0100..=$01FF: when SP - 6 >= L it ends exactly at $0100 + SP - 6;
\* otherwise it ends exactly at $0200; and PatchMem::new returns the
\* restore-code-too-large error exactly when L > 256, for every SP in 0..255.
C23_Placement ==
    Patched =>
        /\ \A L \in 1..512 : CodeStart(snapshot.cpu.sp, L) = PlaceOf(snapshot.cpu.sp, L)
        /\ ~RestoreTooLarge
        /\ phase = "patched" =>
             /\ patch.code_len <= 256
             /\ patch.code_start = PlaceOf(snapshot.cpu.sp, patch.code_len)
             /\ patch.code_start >= 256 /\ patch.code_start + patch.code_len <= 512
             /\ ReadSlice(image, patch.ram, patch.code_start, patch.code_len)
                  = generate_restore_code(snapshot, patch.blocks[10].address,
                                          patch.blocks[10].size)

\* a 77-byte routine has been placed for stack pointer $28, too low to have
\* the routine beneath it
C23_Witness ==
    /\ phase = "patched"
    /\ snapshot.cpu.sp = 40
    /\ patch.code_len = 77
    /\ patch.code_start = 512 - 77

EfSucceeded ==
    /\ cartridge # NoneVal /\ cartridge.kind = "ef"
    /\ cartridge.stage = "done" /\ cartridge.outcome.kind = "ok"

\* C24 (as stated): in the 16 KiB cartridge conversion, for all sizes of the
\* three parts, the low-window contents of banks 0, 1, 2, ... read
\* consecutively from bank 0 offset 0 are exactly restore_code followed by
\* relocated_decompressor followed by compressed_ram, with no part omitted and
\* no gap between parts.
C24_Original ==
    EfSucceeded =>
        /\ Len(builder.val.banks) * 8192 >= TotalLen
        /\ \A k \in 1..TotalLen : LowByte(k) = PartsByte(k)

\* generate_metadata has returned the directory
DirectoryWritten == fsm # NoneVal /\ fsm.metadata # NoneVal /\ fsm.metadata.kind = "ok"

\* the 16 bytes of directory entry i (from 1)
DirEntry(i) == SubSeq(fsm.metadata.val, 16 * (i - 1) + 1, 16 * i)

\* banks followed by zero bytes up to eight bytes
PaddedBanks(banks) == banks \o [k \in 1..(8 - Len(banks)) |-> 0]

\* C25 (as stated): for every file accepted by the file-system manager
\* (payload of at most 64 KiB, spanning at most 8 banks), the 16-byte
\* directory entry written by generate_metadata carries, as little-endian
\* 16-bit fields, the file's start offset in its first bank and its exact
\* payload length, and its 8-byte bank list holds the file's bank numbers in
\* order followed by zero bytes.
C25_Original ==
    DirectoryWritten =>
        \A i \in 1..Len(fsm.result.val) :
            /\ DirEntry(i)[11] + 256 * DirEntry(i)[12] = fsm.result.val[i].start_offset
            /\ DirEntry(i)[13] + 256 * DirEntry(i)[14] = prg.files[i].size
            /\ SubSeq(DirEntry(i), 3, 10) = PaddedBanks(fsm.result.val[i].banks)

\* C26: the ten regions that PatchMem::new obtains from the allocator are
\* pairwise disjoint and each lies entirely inside $0200..=$FFEF, so no block
\* overlaps another block, the stack page, $00F8..$00FF or $FFF0..$FFFF; and
\* every allocation is made before the patcher writes any byte into the RAM
\* image: a patch that failed for want of a block has written nothing.
C26_Regions ==
    /\ phase = "patched" =>
         /\ Len(patch.blocks) = 10 /\ Len(patch.requests) = 10
         /\ \A k \in 1..10 :
              /\ patch.blocks[k].size >= 1
              /\ BlockRange(k) \subseteq 512..65519
              /\ BlockRange(k) \cap ((256..511) \cup (248..255) \cup (65520..65535)) = {}
         /\ \A k \in 1..10 : \A m \in 1..10 : k # m => BlockRange(k) \cap BlockRange(m) = {}
    /\ (phase = "failed" /\ patch.err.kind = "AllocationFailed") => patch.ram = EmptyRam

\* ten blocks have been taken from more than one run of an image, for a
\* snapshot with stack pointer 0
C26_Witness ==
    /\ phase = "patched"
    /\ snapshot.cpu.sp = 0
    /\ Len(patch.blocks) = 10
    /\ \E k \in 1..9 :
         patch.blocks[k + 1].address # patch.blocks[k].address + patch.blocks[k].size
    /\ patch.ram # EmptyRam

\* C27: for every snapshot SP in 0..255 the three stack-page bytes that block
\* 10 pushes for the RTI (PCH at $0100+SP, PCL at $0100+((SP-1) mod 256), P at
\* $0100+((SP-2) mod 256)) lie outside the bytes [start, start+L) occupied by
\* the primary restore routine in $01xx.
C27_Original == phase = "patched" => FrameAddrs \cap CodeRange = {}

\* allocate_files has accepted the files, given ascending distinct banks
FilesAccepted ==
    /\ fsm # NoneVal /\ fsm.stage = "done" /\ fsm.result.kind = "ok"
    /\ \A i \in 1..Len(prg.unused_banks) : \A j \in 1..Len(prg.unused_banks) :
         i < j => prg.unused_banks[i] < prg.unused_banks[j]

\* the offsets [SegLo, SegHi) that an allocation's bytes take in its i-th bank
SegLo(a, i) == Max(a.start_offset - (i - 1) * BANK_SIZE_8K, 0)

SegHi(a, i) == Min(a.start_offset + a.file.size - (i - 1) * BANK_SIZE_8K, BANK_SIZE_8K)

\* offset o of bank n belongs to some file
Covered(allocations, n, o) ==
    \E k \in 1..Len(allocations) : \E i \in 1..Len(allocations[k].banks) :
        /\ allocations[k].banks[i] = n
        /\ SegLo(allocations[k], i) <= o /\ o < SegHi(allocations[k], i)

\* the builder's banks hold a's payload, in order, in a's range
Stored(b, a, data) ==
    \A i \in 1..Len(a.banks) :
        SubSeq(b.banks[a.banks[i] + 1], SegLo(a, i) + 1, SegHi(a, i))
          = SubSeq(data, (i - 1) * BANK_SIZE_8K + SegLo(a, i) - a.start_offset + 1,
                         (i - 1) * BANK_SIZE_8K + SegHi(a, i) - a.start_offset)

\* C28: for any list of files that allocate_files accepts with an ascending,
\* duplicate-free list of available banks, the (bank, offset) byte ranges of
\* different files are pairwise disjoint, every range lies inside banks taken
\* from the available list, no file has more than 8 banks, and
\* write_files_to_banks stores each file's payload bytes in order across its
\* banks and writes nothing outside the files' ranges.
C28_Ranges ==
    FilesAccepted =>
      /\ Len(fsm.result.val) = Len(prg.files)
      /\ \A k \in 1..Len(fsm.result.val) :
           \E a \in {fsm.result.val[k]} :
             /\ a.file = prg.files[k]
             /\ Len(a.banks) \in 1..MAX_BANKS_PER_FILE
             /\ \A i \in 1..Len(a.banks) :
                  /\ \E j \in 1..Len(prg.unused_banks) : prg.unused_banks[j] = a.banks[i]
                  /\ \A j \in 1..Len(a.banks) : i # j => a.banks[i] # a.banks[j]
                  /\ SegLo(a, i) <= SegHi(a, i)
             /\ a.start_offset \in 0..(BANK_SIZE_8K - 1)
             /\ a.start_offset + a.file.size <= Len(a.banks) * BANK_SIZE_8K
      /\ \A k \in 1..Len(fsm.result.val) : \A m \in 1..Len(fsm.result.val) :
           k # m =>
             \A i \in 1..Len(fsm.result.val[k].banks) :
               \A j \in 1..Len(fsm.result.val[m].banks) :
                 fsm.result.val[k].banks[i] = fsm.result.val[m].banks[j] =>
                   \/ SegHi(fsm.result.val[k], i) <= SegLo(fsm.result.val[m], j)
                   \/ SegHi(fsm.result.val[m], j) <= SegLo(fsm.result.val[k], i)
      /\ builder # NoneVal =>
           /\ builder.kind = "ok"
           /\ \A k \in 1..Len(fsm.result.val) :
                Stored(builder.val, fsm.result.val[k], FileData(fsm.result.val[k].file))
           /\ \A n \in 1..Len(builder.val.banks) : \A o \in 0..(BANK_SIZE_8K - 1) :
                Covered(fsm.result.val, n - 1, o) \/ builder.val.banks[n][o + 1] = 0

\* four files have been written, one of them from a non-zero offset of a
\* shared bank on into the next bank
C28_Witness ==
    /\ FilesAccepted
    /\ builder # NoneVal /\ builder.kind = "ok"
    /\ Len(fsm.result.val) = 4
    /\ \E k \in 1..4 : /\ fsm.result.val[k].start_offset > 0
                       /\ Len(fsm.result.val[k].banks) = 2
                       /\ Covered(fsm.result.val, fsm.result.val[k].banks[1], 0)

\* the requested name is not empty and has no '*', no '?' and no space
PlainName(pat) == Len(pat) > 0 /\ \A k \in 1..Len(pat) : pat[k] \notin {42, 63, 32}

\* C29: a non-empty requested name that contains no '*', no '?' and no space
\* selects a directory entry only if the stored name has the same length and
\* the same characters after case folding; in particular a requested name
\* that is a proper prefix of a stored name does not select that entry.
C29_Original ==
    (Loaded /\ PlainName(cart.pattern) /\ handler.selected # <<>>) =>
        /\ Len(cart.names[handler.selected[1] + 1]) = Len(cart.pattern)
        /\ \A k \in 1..Len(cart.pattern) :
             Fold(cart.pattern[k]) = Fold(cart.names[handler.selected[1] + 1][k])

\* the length the claim gives the restore routine for the snapshot's CIA masks
RoutineLen ==
    67 + (IF snapshot.cia1.ier # 0 THEN 5 ELSE 0) + (IF snapshot.cia2.ier # 0 THEN 5 ELSE 0)

\* C30: PatchMem::new never returns a code-too-large error: for every
\* snapshot the generated block 9 is 230 bytes, block 10 is 37 bytes and the
\* primary restore routine is 67, 72 or 77 bytes, depending only on whether
\* each CIA's interrupt-enable byte is nonzero; the only way PatchMem::new
\* fails is an allocation failure.
C30_Sizes ==
    Patched =>
      /\ phase = "failed" => ~patch.ok /\ patch.err.kind = "AllocationFailed"
      /\ Len(patch.requests) >= 9 => patch.requests[9] = 230
      /\ Len(patch.requests) >= 10 => patch.requests[10] = 37
      /\ phase = "patched" =>
           /\ patch.ok
           /\ patch.blocks[9].size = 230
           /\ patch.blocks[10].size = 37
           /\ patch.code_len = RoutineLen

\* a patch has succeeded for a snapshot whose second CIA alone has interrupts
\* enabled: its routine is 72 bytes long
C30_Witness ==
    /\ phase = "patched"
    /\ snapshot.cia1.ier = 0 /\ snapshot.cia2.ier # 0
    /\ patch.requests = <<48, 40, 32, 32, 32, 32, 32, 32, 230, 37>>
    /\ patch.code_len = 72

====
